---- MODULE Spec2Model ----
(***************************************************************************)
(* Model of the Cineon/DPX pixel core, logImageCore.cc: the row-length     *)
(* helper, the bit-pack writers, the bit-unpack readers, the element       *)
(* assembler and the conversion dispatch, with the allocations and frees   *)
(* each call makes.                                                        *)
(*                                                                         *)
(* Representation.                                                         *)
(*  - A 32-bit word is a sequence of 32 bits, bit i of the C value at      *)
(*    position i+1.  A bit is 0, 1 or Unk (a bit whose value the model     *)
(*    does not compute: it comes from a lookup table built with powf).     *)
(*  - A 16-bit value and a byte are numbers, Unk when not computed.        *)
(*  - A float is a pair <<n, d>>: the rational n/d in lowest terms when    *)
(*    d > 0, the caller's untouched value when d = 0 (Stale), and a value  *)
(*    the model does not compute when d < 0.                               *)
(*  - The host is little-endian, as swap_uint assumes.                     *)
(***************************************************************************)
EXTENDS Integers, Sequences, FiniteSets, TLC

(***************************************************************************)
(* Bounds of the model.                                                    *)
(***************************************************************************)
MaxWidth == 2

MaxHeight == 2

\* the widest image of the row-length model
MaxRowWidth == 12

\* the widest image of the model of the 10-bit writer
MaxWideWidth == 4

(***************************************************************************)
(* Enumerations of logImageCore.h.                                         *)
(***************************************************************************)
descriptor_None == -1

descriptor_Red == 1

descriptor_Green == 2

descriptor_Blue == 3

descriptor_Alpha == 4

descriptor_Luminance == 6

descriptor_Chrominance == 7

descriptor_Depth == 8

descriptor_Composite == 9

descriptor_RGB == 50

descriptor_RGBA == 51

descriptor_ABGR == 52

descriptor_CbYCrY == 100

descriptor_CbYACrYA == 101

descriptor_CbYCr == 102

descriptor_CbYCrA == 103

descriptor_YA == 157

transfer_Unspecified == 0

transfer_UserDefined == 1

transfer_Linear == 2

transfer_Logarithmic == 3

transfer_PrintingDensity == 4

format_DPX == 0

format_Cineon == 1

(***************************************************************************)
(* Numbers, bits and words.                                                *)
(***************************************************************************)
Unk == -1

Min(a, b) == IF a < b THEN a ELSE b

RECURSIVE Gcd(_, _)
Gcd(a, b) == IF b = 0 THEN a ELSE Gcd(b, a % b)

CeilDiv(a, b) == (a + b - 1) \div b

\* bit i of the number n, Unk for a number that is not computed
BitOf(n, i) == IF n = Unk THEN Unk ELSE (n \div (2 ^ i)) % 2

\* the 32-bit word holding the number n (n < 2^31)
WordOf(n) == [i \in 1..32 |-> IF i = 32 THEN 0 ELSE BitOf(n, i - 1)]

ZeroWord == [i \in 1..32 |-> 0]

RECURSIVE BitsVal(_, _, _)
\* the number held by bits lo..hi (positions) of w, Unk if one is not computed
BitsVal(w, lo, hi) ==
  IF lo > hi THEN 0
  ELSE LET rest == BitsVal(w, lo + 1, hi)
       IN  IF w[lo] = Unk \/ rest = Unk THEN Unk ELSE w[lo] + 2 * rest

\* x >> k on a 32-bit unsigned
ShiftRight(w, k) == [i \in 1..32 |-> IF i + k <= 32 THEN w[i + k] ELSE 0]

\* x taken in place of x << k
ShiftLeftNone(w, k) == w

\* x << k on a 32-bit unsigned: the bits shifted out are lost
ShiftLeft(w, k) == [i \in 1..32 |-> IF i - k >= 1 THEN w[i - k] ELSE 0]

\* x & ((1 << n) - 1)
MaskLow(w, n) == [i \in 1..32 |-> IF i <= n THEN w[i] ELSE 0]

OrBit(a, b) == IF a = 1 \/ b = 1 THEN 1 ELSE IF a = Unk \/ b = Unk THEN Unk ELSE 0

\* x | y
WordOr(a, b) == [i \in 1..32 |-> OrBit(a[i], b[i])]

\* the four bytes of a word as the little-endian host stores them
WordBytes(w) ==
  [k \in 1..4 |-> BitsVal(w, 8 * (k - 1) + 1, 8 * k)]

\* the word a little-endian host loads from four bytes
BytesWord(b) ==
  [i \in 1..32 |-> BitOf(b[((i - 1) \div 8) + 1], (i - 1) % 8)]

\* swap_uint: reverse the four bytes iff swap is set
swap_uint(w, swap) ==
  IF swap # 0
    THEN [i \in 1..32 |-> w[8 * (3 - ((i - 1) \div 8)) + ((i - 1) % 8) + 1]]
    ELSE w

\* swap_ushort: exchange the two bytes iff swap is set
swap_ushort(x, swap) ==
  IF x = Unk THEN Unk
  ELSE IF swap # 0 THEN (x % 256) * 256 + (x \div 256)
  ELSE x

\* the two bytes of a 16-bit value as the little-endian host stores them
ShortBytes(x) == IF x = Unk THEN <<Unk, Unk>> ELSE <<x % 256, x \div 256>>

BytesShort(b) == IF b[1] = Unk \/ b[2] = Unk THEN Unk ELSE b[1] + 256 * b[2]

(***************************************************************************)
(* Floats.                                                                 *)
(***************************************************************************)
Frac(n, d) ==
  LET g == Gcd(IF n < 0 THEN -n ELSE n, d)
  IN  IF g = 0 THEN <<0, 1>> ELSE <<n \div g, d \div g>>

Stale == <<0, 0>>

Opaque == <<0, -9>>

One == <<1, 1>>

Zero == <<0, 1>>

IsNum(v) == v[2] > 0

\* float(code) / maxValue
CodeFloat(code, max) == IF code = Unk THEN Opaque ELSE Frac(code, max)

\* float_uint: the code of a float, round(value * max) clamped to 0..max
float_uint(value, max) ==
  IF ~IsNum(value) THEN Unk
  ELSE IF value[1] < 0 THEN 0
  ELSE IF max % value[2] = 0
    THEN Min(max, value[1] * (max \div value[2]))
    ELSE Min(max, (2 * max * value[1] + value[2]) \div (2 * value[2]))

(***************************************************************************)
(* Row length.                                                             *)
(***************************************************************************)
\* a row length without the padding of 8-bit rows
getRowLengthUnpadded(width, logElement) ==
  CASE logElement.bitsPerSample = 1 ->
         ((width * logElement.depth - 1) \div 32 + 1) * 4
    [] logElement.bitsPerSample = 8 -> width * logElement.depth
    [] logElement.bitsPerSample = 10 ->
         ((width * logElement.depth - 1) \div 3 + 1) * 4
    [] OTHER -> width * logElement.depth * 2

getRowLength(width, logElement) ==
  CASE logElement.bitsPerSample = 1 ->
         ((width * logElement.depth - 1) \div 32 + 1) * 4
    [] logElement.bitsPerSample = 8 ->
         ((width * logElement.depth - 1) \div 4 + 1) * 4
    [] logElement.bitsPerSample = 10 ->
         IF logElement.packing = 0
           THEN ((width * logElement.depth * 10 - 1) \div 32 + 1) * 4
         ELSE IF logElement.packing \in {1, 2}
           THEN ((width * logElement.depth - 1) \div 3 + 1) * 4
         ELSE 0
    [] logElement.bitsPerSample = 12 ->
         IF logElement.packing = 0
           THEN ((width * logElement.depth * 12 - 1) \div 32 + 1) * 4
         ELSE IF logElement.packing \in {1, 2}
           THEN width * logElement.depth * 2
         ELSE 0
    [] logElement.bitsPerSample = 16 -> width * logElement.depth * 2
    [] OTHER -> 0

(***************************************************************************)
(* What a call does to the heap, and whether it ran into undefined         *)
(* behaviour: the buffers it allocated and freed (by the name of the       *)
(* allocation site), a dereference of a null pointer, a free of a null     *)
(* pointer, and a store or load outside a buffer.                          *)
(***************************************************************************)
NoEffect ==
  [allocs |-> <<>>, frees |-> <<>>, nullDeref |-> FALSE, nullFree |-> FALSE,
   oob |-> FALSE]

Join(e, f) ==
  [allocs |-> e.allocs \o f.allocs, frees |-> e.frees \o f.frees,
   nullDeref |-> e.nullDeref \/ f.nullDeref,
   nullFree |-> e.nullFree \/ f.nullFree, oob |-> e.oob \/ f.oob]

Alloc(site) == [NoEffect EXCEPT !.allocs = <<site>>]

Free(site) == [NoEffect EXCEPT !.frees = <<site>>]

FreeNull == [NoEffect EXCEPT !.nullFree = TRUE]

NullDeref == [NoEffect EXCEPT !.nullDeref = TRUE]

Oob == [NoEffect EXCEPT !.oob = TRUE]

Range(s) == {s[i] : i \in 1..Len(s)}

\* the buffers a call leaves allocated
Live(e) == Range(e.allocs) \ Range(e.frees)

(***************************************************************************)
(* Buffers: element k of the C array is at position k+1.  A store outside  *)
(* the buffer is dropped; the writers report it.                           *)
(***************************************************************************)
Fill(n, v) == [i \in 1..n |-> v]

StoreAt(buf, index, v) ==
  IF index >= 0 /\ index < Len(buf) THEN [buf EXCEPT ![index + 1] = v] ELSE buf

Outside(buf, index) == index < 0 \/ index >= Len(buf)

RECURSIVE Flatten(_)
Flatten(ss) == IF ss = <<>> THEN <<>> ELSE Head(ss) \o Flatten(Tail(ss))

\* the code of sample x of row y of the element data
SampleCode(logImage, data, y, x, max) ==
  float_uint(data[y * logImage.width * logImage.depth + x + 1], max)

\* the low nbits bits of a code as a word
\* a code cut to its low 8 bits
CodeWord8(code, nbits) ==
  [i \in 1..32 |-> IF i <= 8 THEN BitOf(code, i - 1) ELSE 0]

CodeWord(code, nbits) ==
  [i \in 1..32 |-> IF i <= nbits THEN BitOf(code, i - 1) ELSE 0]

\* pixel != 0, Unk when bits that are not computed decide it
NonZero(w) ==
  IF \E i \in 1..32 : w[i] = 1 THEN 1
  ELSE IF \E i \in 1..32 : w[i] = Unk THEN Unk
  ELSE 0

UnkWord == [i \in 1..32 |-> Unk]

(***************************************************************************)
(* Data writing: one row buffer, filled and written once per row.          *)
(***************************************************************************)
\* logImageSetData8, the store loop of one row
RECURSIVE Fill8(_, _, _, _, _)
Fill8(logImage, data, y, x, st) ==
  IF x >= logImage.width * logImage.depth THEN st
  ELSE Fill8(logImage, data, y, x + 1,
             [row |-> StoreAt(st.row, x, SampleCode(logImage, data, y, x, 255)),
              oob |-> st.oob \/ Outside(st.row, x)])

\* logImageSetData10, the packing loop of one row
RECURSIVE Fill10(_, _, _, _, _)
Fill10(logImage, data, y, x, st) ==
  IF x >= logImage.width * logImage.depth
    THEN LET nz == NonZero(st.pixel)
         IN  IF nz = 0 THEN st
             ELSE [st EXCEPT
                     !.row = StoreAt(st.row, st.index,
                                     IF nz = 1
                                       THEN swap_uint(st.pixel, logImage.isMSB)
                                       ELSE UnkWord),
                     !.oob = st.oob \/ Outside(st.row, st.index)]
  ELSE LET pixel == WordOr(st.pixel,
                           ShiftLeft(CodeWord(SampleCode(logImage, data, y, x, 1023), 10),
                                     st.offset))
           offset == st.offset - 10
       IN  IF offset < 0
             THEN Fill10(logImage, data, y, x + 1,
                         [pixel |-> ZeroWord, offset |-> 22, index |-> st.index + 1,
                          row |-> StoreAt(st.row, st.index,
                                          swap_uint(pixel, logImage.isMSB)),
                          oob |-> st.oob \/ Outside(st.row, st.index)])
             ELSE Fill10(logImage, data, y, x + 1,
                         [st EXCEPT !.pixel = pixel, !.offset = offset])

\* ushort(code) << 4 as a 16-bit value
\* the 12-bit code stored without the shift
Shl4Plain(code) == code

Shl4(code) == IF code = Unk THEN Unk ELSE (code * 16) % 65536

\* logImageSetData12, the store loop of one row
RECURSIVE Fill12(_, _, _, _, _)
Fill12(logImage, data, y, x, st) ==
  IF x >= logImage.width * logImage.depth THEN st
  ELSE Fill12(logImage, data, y, x + 1,
              [row |-> StoreAt(st.row, x,
                               swap_ushort(Shl4(SampleCode(logImage, data, y, x, 4095)),
                                           logImage.isMSB)),
               oob |-> st.oob \/ Outside(st.row, x)])

\* logImageSetData16, the store loop of one row
RECURSIVE Fill16(_, _, _, _, _)
Fill16(logImage, data, y, x, st) ==
  IF x >= logImage.width * logImage.depth THEN st
  ELSE Fill16(logImage, data, y, x + 1,
              [row |-> StoreAt(st.row, x,
                               swap_ushort(SampleCode(logImage, data, y, x, 65535),
                                           logImage.isMSB)),
               oob |-> st.oob \/ Outside(st.row, x)])

\* the row buffer after the stores of row y, and whether one fell outside it
FillRow(bits, logImage, data, y, row) ==
  CASE bits = 8 -> Fill8(logImage, data, y, 0, [row |-> row, oob |-> FALSE])
    [] bits = 10 ->
         Fill10(logImage, data, y, 0,
                [pixel |-> ZeroWord, offset |-> 22, index |-> 0,
                 row |-> row, oob |-> FALSE])
    [] bits = 12 -> Fill12(logImage, data, y, 0, [row |-> row, oob |-> FALSE])
    [] OTHER -> Fill16(logImage, data, y, 0, [row |-> row, oob |-> FALSE])

\* the bytes of the row buffer, as logimage_fwrite(row, rowLength, 1) sends them
RowBytes(bits, row) ==
  CASE bits = 8 -> row
    [] bits = 10 -> Flatten([i \in 1..Len(row) |-> WordBytes(row[i])])
    [] OTHER -> Flatten([i \in 1..Len(row) |-> ShortBytes(row[i])])

\* the row buffer as MEM_mallocN returns it (8 bit: after the memset);
\* garbage is the byte value the uninitialised memory happens to hold
NewRow(bits, rowLength, garbage) ==
  CASE bits = 8 -> Fill(rowLength, 0)
    [] bits = 10 -> Fill(rowLength \div 4,
                         BytesWord(<<garbage, garbage, garbage, garbage>>))
    [] OTHER -> Fill(rowLength \div 2, BytesShort(<<garbage, garbage>>))

\* the loop over the rows: rows sent so far, and whether a store fell outside
RECURSIVE EmitRows(_, _, _, _, _, _, _)
RECURSIVE EmitRow(_, _, _, _, _, _, _)
\* row y filled (st): logimage_fwrite sends it, or fails
EmitRow(bits, logImage, data, failRow, y, acc, st) ==
  IF y = failRow \/ Len(st.row) = 0
    THEN [acc EXCEPT !.rc = 1, !.oob = acc.oob \/ st.oob]
    ELSE EmitRows(bits, logImage, data, failRow, y + 1, st.row,
                  [acc EXCEPT !.rows = Append(acc.rows, RowBytes(bits, st.row)),
                              !.oob = acc.oob \/ st.oob])

EmitRows(bits, logImage, data, failRow, y, row, acc) ==
  IF y >= logImage.height THEN [acc EXCEPT !.rc = 0]
  ELSE EmitRow(bits, logImage, data, failRow, y, acc,
               FillRow(bits, logImage, data, y, row))

\* the row loop left (r): MEM_freeN(row) and the return
RowsWritten(r) ==
  [rc |-> r.rc, rows |-> r.rows,
   eff |-> Join(Join(Alloc("row"), IF r.oob THEN Oob ELSE NoEffect), Free("row"))]

\* logImageSetData8 / 10 / 12 / 16: allocate the row, write every row, free it.
\* fail names the allocation that returns null; failRow is the row whose
\* logimage_fwrite fails (none when failRow = height).
logImageSetData(bits, logImage, logElement, data, fail, failRow, garbage) ==
  IF fail = "row"
    THEN [rc |-> 1, rows |-> <<>>, eff |-> NoEffect]
    ELSE RowsWritten(EmitRows(bits, logImage, data, failRow, 0,
                              NewRow(bits, getRowLength(logImage.width, logElement),
                                     garbage),
                              [rc |-> 0, rows |-> <<>>, oob |-> FALSE]))

(***************************************************************************)
(* Lookup tables.  A table is allocated and filled without a check of the  *)
(* allocation; its entries are powf values the model does not compute:     *)
(* entry code of table id is the float <<code, -id>>.                      *)
(***************************************************************************)
LogToLin == 1

LinToLog == 2

LinToSrgb == 3

SrgbToLin == 4

LutSite(id) ==
  CASE id = LogToLin -> "lutLogToLin"
    [] id = LinToLog -> "lutLinToLog"
    [] id = LinToSrgb -> "lutLinToSrgb"
    [] OTHER -> "lutSrgbToLin"

\* getLogToLinLut / getLinToLogLut / getLinToSrgbLut / getSrgbToLinLut:
\* MEM_malloc_arrayN, then lut[i] = ... for every i, with no null check
getLut(id, fail) ==
  IF fail = LutSite(id) THEN NullDeref ELSE Alloc(LutSite(id))

\* lut[float_uint(value, maxValue)]
LutAt(id, value, max) ==
  LET code == float_uint(value, max)
  IN  IF code = Unk THEN Opaque ELSE <<code, -id>>

(***************************************************************************)
(* Conversions between the element's layout and RGBA.  Each returns rc,    *)
(* the destination buffer, the heap effect and whether a table was used.   *)
(* Pixel i is read at src[stride*i ..]; a load outside src gives Opaque.   *)
(***************************************************************************)
Load(src, index) ==
  IF index >= 0 /\ index < Len(src) THEN src[index + 1] ELSE Opaque

\* dst after vals were stored from its start; stores past its end are dropped
Overlay(dst, vals) ==
  [k \in 1..Len(dst) |-> IF k <= Len(vals) THEN vals[k] ELSE dst[k]]

NumPixels(logImage) == logImage.width * logImage.height

Straight(logElement) ==
  logElement.transfer \in {transfer_Unspecified, transfer_UserDefined,
                           transfer_Linear, transfer_Logarithmic}

Done(dst, vals, srcLen, need, eff, lut) ==
  [rc |-> 0, dst |-> Overlay(dst, vals),
   eff |-> IF Len(vals) > Len(dst) \/ need > srcLen THEN Join(eff, Oob) ELSE eff,
   lut |-> lut]

\* a conversion that clears the destination before it refuses
FailedWritten(dst) ==
  [rc |-> 1, dst |-> Fill(Len(dst), Zero), eff |-> NoEffect, lut |-> FALSE]

Failed(dst) == [rc |-> 1, dst |-> dst, eff |-> NoEffect, lut |-> FALSE]

Crashed(dst, eff) == [rc |-> 1, dst |-> dst, eff |-> eff, lut |-> TRUE]

\* the table a printing-density conversion builds
DensityLut(elementIsSource) == IF elementIsSource = 1 THEN LogToLin ELSE LinToLog

convertRGBA_RGB(src, dst, logImage, logElement, elementIsSource, fail) ==
  LET n == NumPixels(logImage)
      id == DensityLut(elementIsSource)
  IN  IF Straight(logElement)
        THEN Done(dst,
                  [k \in 1..3 * n |-> Load(src, 4 * ((k - 1) \div 3) + ((k - 1) % 3))],
                  Len(src), 4 * n, NoEffect, FALSE)
      ELSE IF logElement.transfer = transfer_PrintingDensity
        THEN IF getLut(id, fail).nullDeref THEN Crashed(dst, NullDeref)
             ELSE Done(dst,
                       [k \in 1..3 * n |->
                          LutAt(id, Load(src, 4 * ((k - 1) \div 3) + ((k - 1) % 3)),
                                logElement.maxValue)],
                       Len(src), 4 * n,
                       Join(Alloc(LutSite(id)), Free(LutSite(id))), TRUE)
      ELSE Failed(dst)

convertRGB_RGBA(src, dst, logImage, logElement, elementIsSource, fail) ==
  LET n == NumPixels(logImage)
      id == DensityLut(elementIsSource)
  IN  IF Straight(logElement)
        THEN Done(dst,
                  [k \in 1..4 * n |->
                     IF (k - 1) % 4 = 3 THEN One
                     ELSE Load(src, 3 * ((k - 1) \div 4) + ((k - 1) % 4))],
                  Len(src), 3 * n, NoEffect, FALSE)
      ELSE IF logElement.transfer = transfer_PrintingDensity
        THEN IF getLut(id, fail).nullDeref THEN Crashed(dst, NullDeref)
             ELSE Done(dst,
                       [k \in 1..4 * n |->
                          IF (k - 1) % 4 = 3 THEN One
                          ELSE LutAt(id, Load(src, 3 * ((k - 1) \div 4) + ((k - 1) % 4)),
                                     logElement.maxValue)],
                       Len(src), 3 * n,
                       Join(Alloc(LutSite(id)), Free(LutSite(id))), TRUE)
      ELSE Failed(dst)

convertRGBA_RGBA(src, dst, logImage, logElement, elementIsSource, fail) ==
  LET n == NumPixels(logImage)
      id == DensityLut(elementIsSource)
  IN  IF logElement.transfer \in {transfer_UserDefined, transfer_Linear,
                                  transfer_Logarithmic}
        THEN Done(dst, [k \in 1..4 * n |-> Load(src, k - 1)],
                  Len(src), 4 * n, NoEffect, FALSE)
      ELSE IF logElement.transfer = transfer_PrintingDensity
        THEN IF getLut(id, fail).nullDeref THEN Crashed(dst, NullDeref)
             ELSE Done(dst,
                       [k \in 1..4 * n |->
                          IF (k - 1) % 4 = 3 THEN Load(src, k - 1)
                          ELSE LutAt(id, Load(src, k - 1), logElement.maxValue)],
                       Len(src), 4 * n,
                       Join(Alloc(LutSite(id)), Free(LutSite(id))), TRUE)
      ELSE Failed(dst)

convertABGR_RGBA(src, dst, logImage, logElement, elementIsSource, fail) ==
  LET n == NumPixels(logImage)
      id == DensityLut(elementIsSource)
      \* src_ptr += 4, then four loads at *(src_ptr--)
      From(k) == 4 * ((k - 1) \div 4) + 4 - ((k - 1) % 4)
  IN  IF logElement.transfer \in {transfer_UserDefined, transfer_Linear,
                                  transfer_Logarithmic}
        THEN Done(dst, [k \in 1..4 * n |-> Load(src, From(k))],
                  Len(src), IF n = 0 THEN 0 ELSE 4 * n + 1, NoEffect, FALSE)
      ELSE IF logElement.transfer = transfer_PrintingDensity
        THEN IF getLut(id, fail).nullDeref THEN Crashed(dst, NullDeref)
             ELSE Done(dst,
                       [k \in 1..4 * n |->
                          IF (k - 1) % 4 = 3 THEN Load(src, From(k))
                          ELSE LutAt(id, Load(src, From(k)), logElement.maxValue)],
                       Len(src), IF n = 0 THEN 0 ELSE 4 * n + 1,
                       Join(Alloc(LutSite(id)), Free(LutSite(id))), TRUE)
      ELSE Failed(dst)

\* getYUVtoRGBMatrix: the return value; the matrix entries are floats the
\* model does not compute (scaleY = 1.0f / (refHighData - refLowData))
\* getYUVtoRGBMatrix were it to give a matrix for every transfer
getYUVtoRGBMatrixAnyTransfer(logElement) == 0

getYUVtoRGBMatrix(logElement) ==
  IF logElement.transfer \in {2, 5, 6, 7, 8} THEN 0 ELSE 1

\* convertCbYCr_RGBA, convertCbYCrA_RGBA, convertLuminance_RGBA and
\* convertYA_RGBA: one pixel out per stride samples in; alphaAt is the place
\* of the alpha sample in the pixel's samples, -1 when alpha is 1.0f
convertPerPixel(src, dst, logImage, logElement, stride, alphaAt) ==
  LET n == NumPixels(logImage)
  IN  IF getYUVtoRGBMatrix(logElement) # 0 THEN Failed(dst)
      ELSE Done(dst,
                [k \in 1..4 * n |->
                   IF (k - 1) % 4 # 3 THEN Opaque
                   ELSE IF alphaAt < 0 THEN One
                   ELSE Load(src, stride * ((k - 1) \div 4) + alphaAt)],
                Len(src), stride * n, NoEffect, FALSE)

\* convertCbYCrY_RGBA and convertCbYACrYA_RGBA: width*height/2 passes, two
\* pixels out per pass; alphaAt is the place of the first alpha sample, -1
\* when alpha is 1.0f
convertPerPair(src, dst, logImage, logElement, stride, alphaAt) ==
  LET pairs == NumPixels(logImage) \div 2
  IN  IF getYUVtoRGBMatrix(logElement) # 0 THEN Failed(dst)
      ELSE Done(dst,
                [k \in 1..8 * pairs |->
                   IF (k - 1) % 4 # 3 THEN Opaque
                   ELSE IF alphaAt < 0 THEN One
                   ELSE Load(src, stride * ((k - 1) \div 8)
                                  + alphaAt + 3 * (((k - 1) % 8) \div 4))],
                Len(src), stride * pairs, NoEffect, FALSE)

convertLogElementToRGBA(src, dst, logImage, logElement, dstIsLinearRGB, fail) ==
  LET d == logElement.descriptor
      c == CASE d = descriptor_RGB ->
                  convertRGB_RGBA(src, dst, logImage, logElement, 1, fail)
             [] d = descriptor_RGBA ->
                  convertRGBA_RGBA(src, dst, logImage, logElement, 1, fail)
             [] d = descriptor_ABGR ->
                  convertABGR_RGBA(src, dst, logImage, logElement, 1, fail)
             [] d = descriptor_Luminance ->
                  convertPerPixel(src, dst, logImage, logElement, 1, -1)
             [] d = descriptor_CbYCr ->
                  convertPerPixel(src, dst, logImage, logElement, 3, -1)
             [] d = descriptor_CbYCrY ->
                  convertPerPair(src, dst, logImage, logElement, 4, -1)
             [] d = descriptor_CbYACrYA ->
                  convertPerPair(src, dst, logImage, logElement, 6, 2)
             [] d = descriptor_CbYCrA ->
                  convertPerPixel(src, dst, logImage, logElement, 4, 3)
             [] d = descriptor_YA ->
                  convertPerPixel(src, dst, logImage, logElement, 2, 1)
             [] OTHER -> Failed(dst)
      lut == getLut(SrgbToLin, fail)
  IN  IF c.eff.nullDeref \/ c.rc = 1 THEN c
      ELSE IF dstIsLinearRGB = 0 THEN c
      ELSE IF lut.nullDeref THEN Crashed(c.dst, Join(c.eff, lut))
      ELSE [rc |-> 0,
            dst |-> [k \in 1..Len(c.dst) |->
                       IF k <= 4 * NumPixels(logImage) /\ (k - 1) % 4 # 3
                         THEN LutAt(SrgbToLin, c.dst[k], logElement.maxValue)
                         ELSE c.dst[k]],
            eff |-> Join(Join(c.eff, lut), Free(LutSite(SrgbToLin))),
            lut |-> TRUE]

\* the R, G, B of every pixel replaced by table id's entry, alpha kept
ThroughLut(id, buf, logImage, max) ==
  [k \in 1..Len(buf) |->
     IF k <= 4 * NumPixels(logImage) /\ (k - 1) % 4 # 3
       THEN LutAt(id, buf[k], max) ELSE buf[k]]

convertRGBAToLogElement(src, dst, logImage, logElement, srcIsLinearRGB, fail) ==
  LET pre == IF srcIsLinearRGB # 0
               THEN Join(Alloc("srgbSrc"), getLut(LinToSrgb, fail))
               ELSE NoEffect
      srgbSrc == IF srcIsLinearRGB # 0
                   THEN ThroughLut(LinToSrgb, src, logImage, logElement.maxValue)
                   ELSE src
      post == IF srcIsLinearRGB # 0
                THEN Join(Free(LutSite(LinToSrgb)), NoEffect) ELSE NoEffect
      c == CASE logElement.descriptor = descriptor_RGB ->
                  convertRGBA_RGB(srgbSrc, dst, logImage, logElement, 0, fail)
             [] logElement.descriptor = descriptor_RGBA ->
                  convertRGBA_RGBA(srgbSrc, dst, logImage, logElement, 0, fail)
             [] OTHER -> Failed(dst)
  IN  IF srcIsLinearRGB # 0 /\ fail = "srgbSrc" THEN Failed(dst)
      ELSE IF pre.nullDeref THEN Crashed(dst, pre)
      ELSE IF c.eff.nullDeref
        THEN Crashed(dst, Join(Join(pre, post), c.eff))
      ELSE [c EXCEPT !.eff = Join(Join(Join(pre, post), c.eff),
                                  IF srcIsLinearRGB # 0 THEN Free("srgbSrc")
                                  ELSE NoEffect),
                     !.lut = c.lut \/ srcIsLinearRGB # 0]

\* logImageSetDataRGBA after convertRGBAToLogElement (c), the rows written (w)
SetWritten(c, w) ==
  [rc |-> w.rc, rows |-> w.rows,
   eff |-> Join(Join(Join(Alloc("elementData"), c.eff), w.eff),
                Free("elementData")),
   lut |-> c.lut]

\* the switch on element[0].bitsPerSample without its default case
SetConvertedAnyBits(logImage, fail, failRow, garbage, c) ==
  IF c.eff.nullDeref \/ c.rc # 0
    THEN [rc |-> 1, rows |-> <<>>, eff |-> Join(Alloc("elementData"), c.eff),
          lut |-> c.lut]
  ELSE SetWritten(c, logImageSetData(logImage.element[1].bitsPerSample, logImage,
                                     logImage.element[1], c.dst, fail, failRow,
                                     garbage))

\* logImageSetDataRGBA after convertRGBAToLogElement (c): the switch on
\* element[0].bitsPerSample
SetConverted(logImage, fail, failRow, garbage, c) ==
  IF c.eff.nullDeref
    THEN [rc |-> 1, rows |-> <<>>, eff |-> Join(Alloc("elementData"), c.eff),
          lut |-> c.lut]
  ELSE IF c.rc # 0 \/ logImage.element[1].bitsPerSample \notin {8, 10, 12, 16}
    THEN [rc |-> 1, rows |-> <<>>,
          eff |-> Join(Join(Alloc("elementData"), c.eff), Free("elementData")),
          lut |-> c.lut]
  ELSE SetWritten(c, logImageSetData(logImage.element[1].bitsPerSample, logImage,
                                     logImage.element[1], c.dst, fail, failRow,
                                     garbage))

\* the element data as imb_alloc_pixels returns it: cleared
NewPixels(logImage, depth) == Fill(logImage.width * logImage.height * depth, Zero)

logImageSetDataRGBA(logImage, data, dataIsLinearRGB, fail, failRow, garbage) ==
  IF fail = "elementData"
    THEN [rc |-> 1, rows |-> <<>>, eff |-> NoEffect, lut |-> FALSE]
    ELSE SetConverted(logImage, fail, failRow, garbage,
                      convertRGBAToLogElement(data,
                                              NewPixels(logImage, logImage.depth),
                                              logImage, logImage.element[1],
                                              dataIsLinearRGB, fail))

(***************************************************************************)
(* Data reading.  A reader is given the file, the element, the bytes of    *)
(* the file and the cleared plane; it returns rc and the plane.  A read    *)
(* past the last byte of the file fails (EOF); seekFail makes the first    *)
(* logimage_fseek fail.                                                    *)
(***************************************************************************)
\* (1 << bitsPerSample) - 1
MaxValueOf(bits) == (2 ^ bits) - 1

RowSamples(logImage, logElement) == logImage.width * logElement.depth

HasBytes(bytes, pos, n) == pos >= 0 /\ pos + n <= Len(bytes)

\* logimage_read_uint at byte pos, then swap_uint
ReadWord(bytes, pos, isMSB) ==
  swap_uint(BytesWord(SubSeq(bytes, pos + 1, pos + 4)), isMSB)

\* logimage_read_ushort at byte pos, then swap_ushort
ReadShort(bytes, pos, isMSB) ==
  swap_ushort(BytesShort(SubSeq(bytes, pos + 1, pos + 2)), isMSB)

\* word & mask as a code, the shift left out
FieldUnshifted(w, shift, nbits) == BitsVal(w, 1, nbits)

\* (word >> shift) & mask as a code
Field(w, shift, nbits) == BitsVal(MaskLow(ShiftRight(w, shift), nbits), 1, nbits)

\* logImageElementGetData1, the words of one row
RECURSIVE Get1Words(_, _, _, _, _, _)
Get1Words(logImage, logElement, bytes, y, x, st) ==
  IF x >= RowSamples(logImage, logElement) \/ st.rc # 0 THEN st
  ELSE IF ~HasBytes(bytes, st.pos, 4) THEN [st EXCEPT !.rc = 1]
  ELSE LET pixel == ReadWord(bytes, st.pos, logImage.isMSB)
           base == y * RowSamples(logImage, logElement) + x
       IN  Get1Words(logImage, logElement, bytes, y, x + 32,
             [st EXCEPT
                !.pos = st.pos + 4,
                !.data = [k \in 1..Len(st.data) |->
                            IF k - 1 >= base /\ k - 1 < base + 32
                               /\ x + (k - 1 - base) < logImage.width
                              THEN CodeFloat(pixel[k - base], 1)
                              ELSE st.data[k]]])

RECURSIVE Get1Rows(_, _, _, _, _)
Get1Rows(logImage, logElement, bytes, y, st) ==
  IF y >= logImage.height \/ st.rc # 0 THEN st
  ELSE Get1Rows(logImage, logElement, bytes, y + 1,
                Get1Words(logImage, logElement, bytes, y, 0, st))

logImageElementGetData1(logImage, logElement, bytes, data, seekFail) ==
  IF seekFail THEN [rc |-> 1, data |-> data]
  ELSE LET st == Get1Rows(logImage, logElement, bytes, 0,
                          [rc |-> 0, pos |-> logElement.dataOffset, data |-> data])
       IN  [rc |-> st.rc, data |-> st.data]

\* logImageElementGetData8: a seek at each row, then one byte per sample
logImageElementGetData8(logImage, logElement, bytes, data, seekFail) ==
  LET rowLength == getRowLength(logImage.width, logElement)
      n == RowSamples(logImage, logElement)
      At(k) == logElement.dataOffset + ((k - 1) \div n) * rowLength + ((k - 1) % n)
  IN  IF seekFail /\ logImage.height > 0 THEN [rc |-> 1, data |-> data]
      ELSE IF \E k \in 1..n * logImage.height : ~HasBytes(bytes, At(k), 1)
        THEN [rc |-> 1, data |-> data]
      ELSE [rc |-> 0,
            data |-> [k \in 1..Len(data) |->
                        IF k <= n * logImage.height
                          THEN CodeFloat(bytes[At(k) + 1], 255) ELSE data[k]]]

\* logImageElementGetData10, the samples of one row
RECURSIVE Get10Samples(_, _, _, _, _, _)
Get10Samples(logImage, logElement, bytes, y, x, st) ==
  IF x >= RowSamples(logImage, logElement) \/ st.rc # 0 THEN st
  ELSE LET up == logImage.depth = 1 /\ logImage.srcFormat = format_DPX
           next == IF up THEN st.offset >= 30 ELSE st.offset < 0
           offset == IF ~next THEN st.offset
                     ELSE IF logElement.packing = 1 THEN (IF up THEN 2 ELSE 22)
                     ELSE IF logElement.packing = 2 THEN (IF up THEN 0 ELSE 20)
                     ELSE st.offset
       IN  IF next /\ ~HasBytes(bytes, st.pos, 4) THEN [st EXCEPT !.rc = 1]
           ELSE LET pixel == IF next THEN ReadWord(bytes, st.pos, logImage.isMSB)
                             ELSE st.pixel
                IN  Get10Samples(logImage, logElement, bytes, y, x + 1,
                      [st EXCEPT
                         !.pos = IF next THEN st.pos + 4 ELSE st.pos,
                         !.pixel = pixel,
                         !.offset = IF up THEN offset + 10 ELSE offset - 10,
                         !.data = StoreAt(st.data,
                                          y * RowSamples(logImage, logElement) + x,
                                          CodeFloat(Field(pixel, offset, 10), 1023))])

RECURSIVE Get10Rows(_, _, _, _, _)
Get10Rows(logImage, logElement, bytes, y, st) ==
  IF y >= logImage.height \/ st.rc # 0 THEN st
  ELSE Get10Rows(logImage, logElement, bytes, y + 1,
         Get10Samples(logImage, logElement, bytes, y, 0,
           [st EXCEPT !.offset =
              IF logImage.depth = 1 /\ logImage.srcFormat = format_DPX
                THEN 32 ELSE -1]))

logImageElementGetData10(logImage, logElement, bytes, data, seekFail) ==
  IF seekFail THEN [rc |-> 1, data |-> data]
  ELSE LET st == Get10Rows(logImage, logElement, bytes, 0,
                           [rc |-> 0, pos |-> logElement.dataOffset,
                            pixel |-> ZeroWord, offset |-> 0, data |-> data])
       IN  [rc |-> st.rc, data |-> st.data]

\* logImageElementGetData10Packed / 12Packed, the samples of one row;
\* nbits is 10 or 12
RECURSIVE GetPackedSamples(_, _, _, _, _, _, _)
GetPackedSamples(nbits, logImage, logElement, bytes, y, x, st) ==
  IF x >= RowSamples(logImage, logElement) \/ st.rc # 0 THEN st
  ELSE LET a == IF st.offset2 # 0
                  THEN [offset |-> nbits - st.offset2, offset2 |-> 0,
                        oldPixel |-> ZeroWord]
                ELSE IF st.offset = 32
                  THEN [offset |-> 0, offset2 |-> st.offset2,
                        oldPixel |-> st.oldPixel]
                ELSE IF st.offset + nbits > 32
                  THEN [offset |-> 0, offset2 |-> 32 - st.offset,
                        oldPixel |-> ShiftRight(st.pixel, st.offset)]
                ELSE [offset |-> st.offset, offset2 |-> st.offset2,
                      oldPixel |-> st.oldPixel]
       IN  IF a.offset = 0 /\ ~HasBytes(bytes, st.pos, 4) THEN [st EXCEPT !.rc = 1]
           ELSE LET pixel == IF a.offset = 0
                               THEN ReadWord(bytes, st.pos, logImage.isMSB)
                               ELSE st.pixel
                    code == BitsVal(WordOr(MaskLow(ShiftRight(ShiftLeft(pixel, a.offset2),
                                                              a.offset), nbits),
                                           a.oldPixel), 1, 32)
                IN  GetPackedSamples(nbits, logImage, logElement, bytes, y, x + 1,
                      [st EXCEPT
                         !.pos = IF a.offset = 0 THEN st.pos + 4 ELSE st.pos,
                         !.reads = IF a.offset = 0 THEN Append(st.reads, st.pos)
                                   ELSE st.reads,
                         !.pixel = pixel,
                         !.offset = a.offset + nbits,
                         !.offset2 = a.offset2,
                         !.oldPixel = a.oldPixel,
                         !.data = StoreAt(st.data,
                                          y * RowSamples(logImage, logElement) + x,
                                          CodeFloat(code, MaxValueOf(nbits)))])

\* the rows unpacked with oldPixel, offset and offset2 carried over from
\* one row to the next
RECURSIVE GetPackedRowsCarried(_, _, _, _, _, _)
GetPackedRowsCarried(nbits, logImage, logElement, bytes, y, st) ==
  IF y >= logImage.height \/ st.rc # 0 THEN st
  ELSE GetPackedRowsCarried(nbits, logImage, logElement, bytes, y + 1,
         GetPackedSamples(nbits, logImage, logElement, bytes, y, 0,
           [st EXCEPT
              !.pos = y * getRowLength(logImage.width, logElement)
                      + logElement.dataOffset]))

RECURSIVE GetPackedRows(_, _, _, _, _, _)
GetPackedRows(nbits, logImage, logElement, bytes, y, st) ==
  IF y >= logImage.height \/ st.rc # 0 THEN st
  ELSE GetPackedRows(nbits, logImage, logElement, bytes, y + 1,
         GetPackedSamples(nbits, logImage, logElement, bytes, y, 0,
           [st EXCEPT
              !.pos = y * getRowLength(logImage.width, logElement)
                      + logElement.dataOffset,
              !.oldPixel = ZeroWord, !.offset = 0, !.offset2 = 0]))

\* reads: the file positions of the 32-bit words read, in the order read
logImageElementGetDataPacked(nbits, logImage, logElement, bytes, data, seekFail) ==
  IF seekFail /\ logImage.height > 0 THEN [rc |-> 1, data |-> data, reads |-> <<>>]
  ELSE LET st == GetPackedRows(nbits, logImage, logElement, bytes, 0,
                   [rc |-> 0, pos |-> 0, pixel |-> ZeroWord, oldPixel |-> ZeroWord,
                    offset |-> 0, offset2 |-> 0, reads |-> <<>>, data |-> data])
       IN  [rc |-> st.rc, data |-> st.data, reads |-> st.reads]

\* the float a 16-bit value read gives: 12 bit filled (packing 1) drops the
\* four padding bits, packing 2 takes the value as it is and any other
\* packing leaves the sample as it was; 16 bit divides by 65535
DecodeShort(bits, packing, pixel, old) ==
  IF bits = 16 THEN CodeFloat(pixel, 65535)
  ELSE IF packing = 1
    THEN CodeFloat(IF pixel = Unk THEN Unk ELSE pixel \div 16, 4095)
  ELSE IF packing = 2 THEN CodeFloat(pixel, 4095)
  ELSE old

\* logImageElementGetData12 and logImageElementGetData16: one 16-bit value
\* per sample, read one after the other from dataOffset
GetShorts(bits, logImage, logElement, bytes, data, seekFail) ==
  LET numSamples == logImage.width * logImage.height * logElement.depth
      At(k) == logElement.dataOffset + 2 * (k - 1)
  IN  IF seekFail THEN [rc |-> 1, data |-> data]
      ELSE IF \E k \in 1..numSamples : ~HasBytes(bytes, At(k), 2)
        THEN [rc |-> 1, data |-> data]
      ELSE [rc |-> 0,
            data |-> [k \in 1..Len(data) |->
                        IF k <= numSamples
                          THEN DecodeShort(bits, logElement.packing,
                                           ReadShort(bytes, At(k), logImage.isMSB),
                                           data[k])
                          ELSE data[k]]]

logImageElementGetData12(logImage, logElement, bytes, data, seekFail) ==
  GetShorts(12, logImage, logElement, bytes, data, seekFail)

logImageElementGetData16(logImage, logElement, bytes, data, seekFail) ==
  GetShorts(16, logImage, logElement, bytes, data, seekFail)

logImageElementGetData(logImage, logElement, bytes, data, seekFail) ==
  CASE logElement.bitsPerSample = 1 ->
         logImageElementGetData1(logImage, logElement, bytes, data, seekFail)
    [] logElement.bitsPerSample = 8 ->
         logImageElementGetData8(logImage, logElement, bytes, data, seekFail)
    [] logElement.bitsPerSample = 10 /\ logElement.packing = 0 ->
         logImageElementGetDataPacked(10, logImage, logElement, bytes, data, seekFail)
    [] logElement.bitsPerSample = 10 /\ logElement.packing \in {1, 2} ->
         logImageElementGetData10(logImage, logElement, bytes, data, seekFail)
    [] logElement.bitsPerSample = 12 /\ logElement.packing = 0 ->
         logImageElementGetDataPacked(12, logImage, logElement, bytes, data, seekFail)
    [] logElement.bitsPerSample = 12 /\ logElement.packing \in {1, 2} ->
         logImageElementGetData12(logImage, logElement, bytes, data, seekFail)
    [] logElement.bitsPerSample = 16 ->
         logImageElementGetData16(logImage, logElement, bytes, data, seekFail)
    [] OTHER -> [rc |-> 1, data |-> data]

(***************************************************************************)
(* logImageGetDataRGBA.                                                    *)
(***************************************************************************)
PlaneSite(i) ==
  <<"elementData0", "elementData1", "elementData2", "elementData3",
    "elementData4", "elementData5", "elementData6", "elementData7">>[i + 1]

NullPlane == [null |-> TRUE, data |-> <<>>]

\* MEM_freeN of every non-null elementData[j], j < upto
RECURSIVE FreePlanes(_, _, _)
FreePlanes(planes, j, upto) ==
  IF j >= upto \/ j >= Len(planes) THEN NoEffect
  ELSE Join(IF planes[j + 1].null THEN NoEffect ELSE Free(PlaneSite(j)),
            FreePlanes(planes, j + 1, upto))

\* the first loop: allocate and load the plane of every element that is not
\* Depth or Composite.  rc = 1 is the early return.
RECURSIVE LoadElements(_, _, _, _, _, _)
LoadElements(logImage, bytes, fail, seekFailAt, i, st) ==
  IF i >= logImage.numElements \/ st.rc # 0 THEN st
  ELSE LET el == logImage.element[i + 1]
           hasAlpha == IF el.descriptor = descriptor_Alpha THEN 1 ELSE st.hasAlpha
           r == logImageElementGetData(logImage, el, bytes,
                                       NewPixels(logImage, el.depth), seekFailAt = i)
       IN  IF el.descriptor \in {descriptor_Depth, descriptor_Composite}
             THEN LoadElements(logImage, bytes, fail, seekFailAt, i + 1,
                               [st EXCEPT !.planes = Append(st.planes, NullPlane),
                                          !.hasAlpha = hasAlpha])
           ELSE IF fail = PlaneSite(i)
             THEN [st EXCEPT !.rc = 1,
                             !.eff = Join(st.eff, FreePlanes(st.planes, 0, i))]
           ELSE IF r.rc # 0
             THEN [st EXCEPT !.rc = 1,
                             !.eff = Join(Join(st.eff, Alloc(PlaneSite(i))),
                                          FreePlanes(st.planes, 0, i))]
           ELSE LoadElements(logImage, bytes, fail, seekFailAt, i + 1,
                             [st EXCEPT
                                !.planes = Append(st.planes,
                                                  [null |-> FALSE, data |-> r.data]),
                                !.eff = Join(st.eff, Alloc(PlaneSite(i))),
                                !.hasAlpha = hasAlpha])

\* the descriptor a Luminance / Chrominance pair merges to
MergedYCbCr(descriptor, depth, hasAlpha) ==
  IF depth = 2 THEN descriptor_CbYCrY
  ELSE IF depth = 3
    THEN (IF hasAlpha = 0 THEN descriptor_CbYCr ELSE descriptor_CbYACrYA)
  ELSE IF depth = 4 THEN descriptor_CbYCrA
  ELSE descriptor

\* the elements kept in file order, whatever their descriptors
SlotInFileOrder(sorted, k, i) == [sorted EXCEPT ![i] = i]

Slot(sorted, k, i) == IF k \in 0..7 THEN [sorted EXCEPT ![k] = i] ELSE sorted

\* the switch of the assembly loop for element i: the merged descriptor and
\* sortedElementData after it
AssembleOne(logImage, hasAlpha, i, m) ==
  LET d == logImage.element[i + 1].descriptor
      rgb == IF hasAlpha = 0 THEN descriptor_RGB ELSE descriptor_RGBA
  IN  CASE d \in {descriptor_Red, descriptor_RGB} ->
             [descriptor |-> rgb, sorted |-> Slot(m.sorted, 0, i)]
        [] d = descriptor_Green ->
             [descriptor |-> rgb, sorted |-> Slot(m.sorted, 1, i)]
        [] d = descriptor_Blue ->
             [descriptor |-> rgb, sorted |-> Slot(m.sorted, 2, i)]
        [] d = descriptor_Alpha ->
             [descriptor |-> m.descriptor,
              sorted |-> Slot(m.sorted, logImage.depth - 1, i)]
        [] d = descriptor_Luminance ->
             [descriptor |->
                IF m.descriptor = descriptor_None
                  THEN (IF hasAlpha = 0 THEN descriptor_Luminance ELSE descriptor_YA)
                ELSE IF m.descriptor = descriptor_Chrominance
                  THEN MergedYCbCr(m.descriptor, logImage.depth, hasAlpha)
                ELSE m.descriptor,
              sorted |->
                IF logImage.depth = 1 \/ (logImage.depth = 2 /\ hasAlpha = 1)
                  THEN Slot(m.sorted, 0, i) ELSE Slot(m.sorted, 1, i)]
        [] d = descriptor_Chrominance ->
             [descriptor |->
                IF m.descriptor = descriptor_None THEN descriptor_Chrominance
                ELSE IF m.descriptor = descriptor_Luminance
                  THEN MergedYCbCr(m.descriptor, logImage.depth, hasAlpha)
                ELSE m.descriptor,
              sorted |->
                IF m.sorted[0] = -1
                  THEN Slot(m.sorted, 0, i) ELSE Slot(m.sorted, 2, i)]
        [] d = descriptor_CbYCr ->
             [descriptor |->
                IF hasAlpha = 0 THEN descriptor_CbYCr ELSE descriptor_CbYCrA,
              sorted |-> Slot(m.sorted, 0, i)]
        [] d \in {descriptor_RGBA, descriptor_ABGR, descriptor_CbYACrYA,
                  descriptor_CbYCrY, descriptor_CbYCrA} ->
             [descriptor |-> d, sorted |-> Slot(m.sorted, 0, i)]
        [] OTHER -> m

RECURSIVE Assemble(_, _, _, _)
Assemble(logImage, hasAlpha, i, m) ==
  IF i >= logImage.numElements THEN m
  ELSE Assemble(logImage, hasAlpha, i + 1, AssembleOne(logImage, hasAlpha, i, m))

\* mergedElement: element[0] with the merged descriptor and the image depth
MergedElement(logImage, descriptor) ==
  [logImage.element[1] EXCEPT !.descriptor = descriptor, !.depth = logImage.depth]

\* The interleave loop.  sorted[i] outside 0..numElements-1 (it is -1 when
\* no element took slot i) indexes element[] and elementData_ptr[] outside
\* the arrays: the depth read there is junkDepth and the samples are Opaque.
EntryValid(logImage, planes, e) ==
  e >= 0 /\ e < logImage.numElements /\ ~planes[e + 1].null

EntryDepth(logImage, sorted, junkDepth, i) ==
  IF sorted[i] >= 0 /\ sorted[i] < logImage.numElements
    THEN logImage.element[sorted[i] + 1].depth ELSE junkDepth

RECURSIVE DepthBefore(_, _, _, _)
\* the samples one pass copies for the entries before entry i
DepthBefore(logImage, sorted, junkDepth, i) ==
  IF i = 0 THEN 0
  ELSE DepthBefore(logImage, sorted, junkDepth, i - 1)
       + EntryDepth(logImage, sorted, junkDepth, i - 1)

Interleave(logImage, planes, sorted, junkDepth) ==
  LET n == logImage.numElements
      total == logImage.width * logImage.height * logImage.depth
      perPass == DepthBefore(logImage, sorted, junkDepth, n)
      passes == IF perPass = 0 THEN 0 ELSE CeilDiv(total, perPass)
      EntryOf(r) == CHOOSE i \in 0..(n - 1) :
                      /\ DepthBefore(logImage, sorted, junkDepth, i) <= r
                      /\ r < DepthBefore(logImage, sorted, junkDepth, i + 1)
      Sample(s) ==
        LET i == EntryOf(s % perPass)
            e == sorted[i]
            at == (s \div perPass) * EntryDepth(logImage, sorted, junkDepth, i)
                  + (s % perPass) - DepthBefore(logImage, sorted, junkDepth, i)
        IN  IF EntryValid(logImage, planes, e) THEN Load(planes[e + 1].data, at)
            ELSE Opaque
      used == {i \in 0..(n - 1) : EntryDepth(logImage, sorted, junkDepth, i) > 0}
  IN  [hang |-> total > 0 /\ perPass = 0,
       badIndex |-> total > 0
                    /\ \E i \in 0..(n - 1) : ~EntryValid(logImage, planes, sorted[i]),
       pastPlane |-> \E i \in used :
                       /\ EntryValid(logImage, planes, sorted[i])
                       /\ passes * logImage.element[sorted[i] + 1].depth
                            > Len(planes[sorted[i] + 1].data),
       pastMerged |-> passes * perPass > total,
       passes |-> passes,
       data |-> IF perPass = 0 THEN Fill(total, Zero)
                ELSE [k \in 1..total |-> Sample(k - 1)]]

NoSlots == [k \in 0..7 |-> -1]

\* sorted[] and the merged descriptor before the assembly loop
NoAssembled == [descriptor |-> descriptor_None, sorted |-> NoSlots]

NoInterleave ==
  [badIndex |-> FALSE, pastPlane |-> FALSE, pastMerged |-> FALSE, passes |-> 0,
   data |-> <<>>]

\* the early returns of logImageGetDataRGBA: nothing converted
GetFailed(data, ld) ==
  [rc |-> 1, data |-> data, eff |-> ld.eff, lut |-> FALSE, hang |-> FALSE,
   descriptor |-> descriptor_None, sorted |-> NoSlots, il |-> NoInterleave,
   planes |-> ld.planes]

\* numElements = 1: convert the plane, then MEM_freeN(elementData[0])
GetSingle(data, ld, one) ==
  [GetFailed(data, ld) EXCEPT
     !.rc = one.rc, !.data = one.dst, !.lut = one.lut,
     !.eff = IF one.eff.nullDeref THEN Join(ld.eff, one.eff)
             ELSE Join(Join(ld.eff, one.eff),
                       IF ld.planes[1].null THEN FreeNull
                       ELSE Free(PlaneSite(0)))]

\* after the interleave loop: free the planes, convert, free the merged buffer
GetMerged(data, ld, m, il, all, c) ==
  [GetFailed(data, ld) EXCEPT
     !.rc = c.rc, !.data = c.dst, !.lut = c.lut,
     !.descriptor = m.descriptor, !.sorted = m.sorted,
     !.il = [badIndex |-> il.badIndex, pastPlane |-> il.pastPlane,
             pastMerged |-> il.pastMerged, passes |-> il.passes,
             data |-> il.data],
     !.eff = Join(Join(Join(Join(Join(ld.eff, Alloc("mergedData")),
                                 IF il.badIndex \/ il.pastPlane \/ il.pastMerged
                                   THEN Oob ELSE NoEffect),
                            all), c.eff),
                  IF c.eff.nullDeref THEN NoEffect ELSE Free("mergedData"))]

\* numElements > 1, the planes loaded and the order decided
GetPlanar(logImage, data, dataIsLinearRGB, fail, ld, m, il, all) ==
  IF fail = "mergedData"
    THEN [GetFailed(data, ld) EXCEPT
            !.eff = Join(ld.eff, all), !.descriptor = m.descriptor,
            !.sorted = m.sorted]
  ELSE IF il.hang
    THEN [GetFailed(data, ld) EXCEPT
            !.hang = TRUE, !.descriptor = m.descriptor, !.sorted = m.sorted,
            !.eff = Join(Join(ld.eff, Alloc("mergedData")), Oob)]
  ELSE GetMerged(data, ld, m, il, all,
                 convertLogElementToRGBA(il.data, data, logImage,
                                         MergedElement(logImage, m.descriptor),
                                         dataIsLinearRGB, fail))

GetAssembled(logImage, data, dataIsLinearRGB, fail, junkDepth, ld, m) ==
  GetPlanar(logImage, data, dataIsLinearRGB, fail, ld, m,
            Interleave(logImage, ld.planes, m.sorted, junkDepth),
            FreePlanes(ld.planes, 0, logImage.numElements))

\* logImageGetDataRGBA after its first loop
GetLoaded(logImage, data, dataIsLinearRGB, fail, junkDepth, ld) ==
  IF ld.rc # 0 THEN GetFailed(data, ld)
  ELSE IF logImage.numElements = 1
    THEN GetSingle(data, ld,
                   convertLogElementToRGBA(ld.planes[1].data, data, logImage,
                                           logImage.element[1], dataIsLinearRGB,
                                           fail))
  ELSE GetAssembled(logImage, data, dataIsLinearRGB, fail, junkDepth, ld,
                    Assemble(logImage, ld.hasAlpha, 0, NoAssembled))

\* what logImageGetDataRGBA does, given the caller's buffer, the flag, the
\* allocation that returns null, the element whose seek fails and the depth
\* read at element[-1]
logImageGetDataRGBA(logImage, bytes, data, dataIsLinearRGB, fail, seekFailAt, junkDepth) ==
  GetLoaded(logImage, data, dataIsLinearRGB, fail, junkDepth,
            LoadElements(logImage, bytes, fail, seekFailAt, 0,
                         [rc |-> 0, planes |-> <<>>, eff |-> NoEffect,
                          hasAlpha |-> 0]))

(***************************************************************************)
(* Opening: the first four bytes decide the parser.                        *)
(***************************************************************************)
\* the magic numbers, as the words a little-endian host holds
DPX_FILE_MAGIC == BytesWord(<<88, 80, 68, 83>>)

CINEON_FILE_MAGIC == BytesWord(<<215, 95, 42, 128>>)

\* *(uint *)buffer
MagicNum(buffer) == BytesWord(SubSeq(buffer, 1, 4))

\* logImageIsDpx were it to take the magic number in one byte order only
logImageIsDpxExact(buffer, size) ==
  IF size < 4 THEN 0
  ELSE IF MagicNum(buffer) = DPX_FILE_MAGIC THEN 1 ELSE 0

logImageIsDpx(buffer, size) ==
  IF size < 4 THEN 0
  ELSE IF MagicNum(buffer) = DPX_FILE_MAGIC
          \/ MagicNum(buffer) = swap_uint(DPX_FILE_MAGIC, 1) THEN 1
  ELSE 0

logImageIsCineon(buffer, size) ==
  IF size < 4 THEN 0
  ELSE IF MagicNum(buffer) = CINEON_FILE_MAGIC
          \/ MagicNum(buffer) = swap_uint(CINEON_FILE_MAGIC, 1) THEN 1
  ELSE 0

\* what an open did: the parser it called, whether the bytes were looked at
\* and the state of the FILE it opened to look at them
NoOpen == [parser |-> "none", sniffed |-> FALSE, handle |-> "none"]

\* the dispatch of both opens on the bytes looked at
OpenParser(buffer, size) ==
  IF logImageIsDpx(buffer, size) # 0 THEN "dpxOpen"
  ELSE IF logImageIsCineon(buffer, size) # 0 THEN "cineonOpen"
  ELSE "none"

logImageOpenFromMemory(buffer, size) ==
  [parser |-> OpenParser(buffer, size), sniffed |-> size >= 4, handle |-> "none"]

\* exists: BLI_fopen gives a FILE; fread fails on a file of fewer than 4 bytes
logImageOpenFromFile(bytes, exists) ==
  IF ~exists THEN NoOpen
  ELSE IF Len(bytes) < 4
    THEN [parser |-> "none", sniffed |-> FALSE, handle |-> "closed"]
  ELSE [parser |-> OpenParser(SubSeq(bytes, 1, 4), 4), sniffed |-> TRUE,
        handle |-> "closed"]

(***************************************************************************)
(* The open file and the state of the model.                               *)
(***************************************************************************)
VARIABLES
  logImage,   \* the LogImageFile: width, height, depth, numElements, element[], isMSB, srcFormat
  disk,       \* the bytes of the file from the first element's dataOffset on
  outBuf,     \* the caller's buffer of width*height*4 floats given to logImageGetDataRGBA
  call,       \* the last call: what it was given, what it returned and what it did
              \* (for a read: the planes loaded and the merged buffer, call.il.data;
              \* for a packed unpack: the positions of the words read, call.reads)
  before      \* the call before the last one

vars == <<logImage, disk, outBuf, call, before>>

LogImageElement(descriptor, depth, bits, packing, transfer, dataOffset) ==
  [descriptor |-> descriptor, depth |-> depth, bitsPerSample |-> bits,
   packing |-> packing, transfer |-> transfer, dataOffset |-> dataOffset,
   refLowData |-> 0, refHighData |-> MaxValueOf(bits),
   maxValue |-> MaxValueOf(bits)]

\* a file of one element, as cineonCreate / dpxCreate and the header parsers set it up
SingleElementFile(width, height, el, isMSB, srcFormat) ==
  [width |-> width, height |-> height, depth |-> el.depth, numElements |-> 1,
   element |-> <<el>>, isMSB |-> isMSB, srcFormat |-> srcFormat]

\* the number of channels a descriptor carries
DepthOf(descriptor) ==
  CASE descriptor \in {descriptor_RGB, descriptor_CbYCr, descriptor_CbYACrYA} -> 3
    [] descriptor \in {descriptor_RGBA, descriptor_ABGR, descriptor_CbYCrA} -> 4
    [] descriptor \in {descriptor_CbYCrY, descriptor_YA} -> 2
    [] OTHER -> 1

NoCall ==
  [op |-> "none", status |-> "idle", rc |-> 0, eff |-> NoEffect, rows |-> <<>>,
   data |-> <<>>, linear |-> 0, fail |-> "none", lut |-> FALSE,
   seekFailAt |-> -1, merged |-> descriptor_None, sorted |-> NoSlots,
   il |-> NoInterleave, rowLength |-> 0, planes |-> <<>>, open |-> NoOpen,
   reads |-> <<>>]

\* the floats a caller passes in: inside, on the edges of and outside [0, 1]
Samples == << <<0, 1>>, <<1, 3>>, <<1, 1>>, <<1, 2>>, <<5, 4>>, <<2, 3>>, <<-1, 4>> >>

Patterns == {"ramp", "skew", "firstRow", "zero"}

\* the RGBA buffer of width*height*4 floats that pattern p stands for
DataOf(p, width, height) ==
  [k \in 1..4 * width * height |->
     CASE p = "ramp" -> Samples[((k - 1) % Len(Samples)) + 1]
       [] p = "skew" -> Samples[((3 * k + 1) % Len(Samples)) + 1]
       [] p = "firstRow" -> IF k <= 4 * width THEN One ELSE Zero
       [] OTHER -> Zero]

(***************************************************************************)
(* logImageSetDataRGBA on a file just created: the rows go to the file.    *)
(* A store outside the row buffer is undefined: the call either dies or    *)
(* goes on with the store lost.                                            *)
(***************************************************************************)
\* what a call of logImageSetDataRGBA is given: the pixels, the flag, the
\* allocation that returns null (none), the row whose logimage_fwrite fails
\* (height: none) and the byte the uninitialised row memory holds
SetInputs(f) ==
  [p : Patterns, linear : {0, 1}, fail : {"none"}, failRow : {f.height},
   garbage : IF f.element[1].bitsPerSample = 10 THEN {0, 255} ELSE {0}]
  \cup
  [p : {"ramp"}, linear : {0, 1},
   fail : {"elementData", "srgbSrc", "lutLinToSrgb", "lutLinToLog", "row"},
   failRow : {f.height}, garbage : {0}]
  \cup
  [p : {"ramp"}, linear : {0}, fail : {"none"}, failRow : 0..(f.height - 1),
   garbage : {0}]

SetDataRGBA ==
  /\ call.op = "none"
  /\ before' = call
  /\ \E in \in SetInputs(logImage) :
       \E data \in {DataOf(in.p, logImage.width, logImage.height)} :
       \E r \in {logImageSetDataRGBA(logImage, data, in.linear, in.fail,
                                     in.failRow, in.garbage)} :
           \E outcome \in (IF r.eff.nullDeref THEN {"crashed"}
                           ELSE IF r.eff.oob THEN {"crashed", "returned"}
                           ELSE {"returned"}) :
             /\ disk' = disk \o Flatten(r.rows)
             /\ call' = [op |-> "set", status |-> outcome, rc |-> r.rc,
                         eff |-> IF outcome = "crashed"
                                   THEN [r.eff EXCEPT !.frees = <<>>]
                                   ELSE r.eff,
                         rows |-> r.rows, data |-> data,
                         linear |-> in.linear, fail |-> in.fail,
                         lut |-> r.lut, seekFailAt |-> -1,
                         merged |-> descriptor_None, sorted |-> NoSlots,
                         il |-> NoInterleave,
                         rowLength |-> getRowLength(logImage.width,
                                                    logImage.element[1]),
                         planes |-> <<>>, open |-> NoOpen, reads |-> <<>>]
  /\ UNCHANGED <<logImage, outBuf>>

\* the (bitsPerSample, packing) pairs of the files of the model
Layouts ==
  {<<1, 1>>, <<8, 1>>, <<16, 1>>, <<10, 0>>, <<10, 1>>, <<10, 2>>,
   <<12, 0>>, <<12, 1>>, <<12, 2>>}

WriteDescriptors ==
  {descriptor_RGB, descriptor_RGBA, descriptor_ABGR, descriptor_Luminance}

WriteFiles ==
  {SingleElementFile(w, h,
                     LogImageElement(d, DepthOf(d), l[1], l[2], transfer, 0),
                     isMSB, format_DPX) :
     w \in 1..MaxWidth, h \in 1..MaxHeight, d \in WriteDescriptors,
     l \in Layouts,
     transfer \in {transfer_Linear, transfer_PrintingDensity, 5},
     isMSB \in {0, 1}}

InitWrite ==
  /\ logImage \in WriteFiles
  /\ disk = <<>>
  /\ outBuf = <<>>
  /\ call = NoCall
  /\ before = NoCall

NextWrite == SetDataRGBA

SpecWrite == InitWrite /\ [][NextWrite]_vars

(***************************************************************************)
(* logImageSetDataRGBA on 10-bit files of one row, up to MaxWideWidth      *)
(* pixels wide, in the three packings getRowLength knows.                  *)
(***************************************************************************)
Write10Files ==
  {SingleElementFile(w, 1, LogImageElement(d, DepthOf(d), 10, packing,
                                           transfer_Linear, 0),
                     isMSB, format_DPX) :
     w \in 1..MaxWideWidth, d \in {descriptor_RGB, descriptor_RGBA},
     packing \in {0, 1, 2}, isMSB \in {0, 1}}

InitWrite10 ==
  /\ logImage \in Write10Files
  /\ disk = <<>>
  /\ outBuf = <<>>
  /\ call = NoCall
  /\ before = NoCall

SpecWrite10 == InitWrite10 /\ [][NextWrite]_vars

(***************************************************************************)
(* logImageGetDataRGBA on an open file.  The caller's buffer starts with   *)
(* the caller's own values.                                                *)
(***************************************************************************)
\* the slots the interleave loop visits hold an index outside the elements
BadSlot(f) ==
  /\ f.numElements > 1
  /\ \E e \in {Assemble(f, 0, 0, NoAssembled).sorted[i] :
                  i \in 0..(f.numElements - 1)} :
       e < 0 \/ e >= f.numElements

\* what a call of logImageGetDataRGBA is given: the flag, the allocation
\* that returns null (none), the element whose logimage_fseek fails (-1:
\* none) and the depth found at element[-1]
GetInputs(f) ==
  [linear : {0, 1}, fail : {"none"}, seekFailAt : {-1},
   junkDepth : IF BadSlot(f) THEN {0, 1} ELSE {1}]
  \cup
  [linear : {1},
   fail : {PlaneSite(i) : i \in 0..(f.numElements - 1)}
          \cup {"mergedData", "lutLogToLin", "lutSrgbToLin"},
   seekFailAt : {-1}, junkDepth : {1}]
  \cup
  [linear : {0}, fail : {"none"}, seekFailAt : 0..(f.numElements - 1),
   junkDepth : {1}]

\* the ways a call can end: a store through null kills the process; a loop
\* that never advances does not end; an access outside a buffer kills the
\* process there or goes on
GetOutcomes(r, data) ==
  (IF r.hang THEN {[status |-> "hung", eff |-> r.eff, data |-> data]} ELSE {})
  \cup
  (IF ~r.hang /\ r.eff.oob
     THEN {[status |-> "crashed", eff |-> [r.eff EXCEPT !.frees = <<>>],
            data |-> data]}
     ELSE {})
  \cup
  (IF ~r.hang
     THEN {[status |-> IF r.eff.nullDeref THEN "crashed" ELSE "returned",
            eff |-> r.eff, data |-> r.data]}
     ELSE {})

GetDataRGBA ==
  /\ call.op # "get"
  /\ call.status \in {"idle", "returned"}
  /\ before' = call
  /\ \E in \in GetInputs(logImage) :
       \E r \in {logImageGetDataRGBA(logImage, disk, outBuf, in.linear, in.fail,
                                     in.seekFailAt, in.junkDepth)} :
           \E o \in GetOutcomes(r, outBuf) :
             /\ outBuf' = o.data
             /\ call' = [op |-> "get", status |-> o.status, rc |-> r.rc,
                         eff |-> o.eff, rows |-> <<>>, data |-> outBuf,
                         linear |-> in.linear, fail |-> in.fail, lut |-> r.lut,
                         seekFailAt |-> in.seekFailAt,
                         merged |-> r.descriptor, sorted |-> r.sorted,
                         il |-> r.il, rowLength |-> 0, planes |-> r.planes,
                         open |-> NoOpen, reads |-> <<>>]
  /\ UNCHANGED <<logImage, disk>>

\* the bytes of the elements of file f, one after the other
DiskSize(f) ==
  LET el == f.element[f.numElements]
  IN  el.dataOffset + getRowLength(f.width, el) * f.height

MixBytes(n) == [k \in 1..n |-> (k * 37 + 11) % 256]

\* a file of several elements stored one after the other
RECURSIVE PlaceElements(_, _, _, _)
PlaceElements(width, height, els, at) ==
  IF els = <<>> THEN <<>>
  ELSE LET el == [els[1] EXCEPT !.dataOffset = at]
       IN  <<el>> \o PlaceElements(width, height, Tail(els),
                                    at + getRowLength(width, el) * height)

RECURSIVE SumDepth(_)
SumDepth(els) == IF els = <<>> THEN 0 ELSE els[1].depth + SumDepth(Tail(els))

\* a planar file: logImage.depth is the number of channels of all elements
PlanarFile(width, height, descriptors, bits, packing, transfer, isMSB, srcFormat) ==
  LET els == [i \in 1..Len(descriptors) |->
                LogImageElement(descriptors[i], DepthOf(descriptors[i]), bits,
                                packing, transfer, 0)]
  IN  [width |-> width, height |-> height, depth |-> SumDepth(els),
       numElements |-> Len(els),
       element |-> PlaceElements(width, height, els, 0),
       isMSB |-> isMSB, srcFormat |-> srcFormat]

ReadDescriptors ==
  {descriptor_RGB, descriptor_RGBA, descriptor_ABGR, descriptor_Luminance,
   descriptor_CbYCr, descriptor_CbYCrY, descriptor_CbYACrYA, descriptor_CbYCrA,
   descriptor_YA, descriptor_Depth, descriptor_Chrominance, descriptor_Red}

\* the layouts of the model and three no reader takes
ReadLayouts == Layouts \cup {<<24, 1>>, <<10, 3>>, <<12, 3>>}

\* the transfers of the model: handled everywhere, by the YCbCr converters
\* only (6), by the RGB converters only (4), by none (9)
ReadTransfers ==
  {transfer_Unspecified, transfer_UserDefined, transfer_Logarithmic,
   transfer_PrintingDensity, 6, 9}

Planes ==
  {<<descriptor_Red, descriptor_Green, descriptor_Blue>>,
   <<descriptor_Red, descriptor_Blue, descriptor_Green>>,
   <<descriptor_Green, descriptor_Red, descriptor_Blue>>,
   <<descriptor_Green, descriptor_Blue, descriptor_Red>>,
   <<descriptor_Blue, descriptor_Red, descriptor_Green>>,
   <<descriptor_Blue, descriptor_Green, descriptor_Red>>,
   <<descriptor_Blue, descriptor_Green, descriptor_Red, descriptor_Alpha>>,
   <<descriptor_Luminance, descriptor_Alpha>>,
   <<descriptor_Luminance, descriptor_Chrominance>>,
   <<descriptor_Chrominance, descriptor_Chrominance>>,
   <<descriptor_Depth, descriptor_RGB>>,
   <<descriptor_RGB, descriptor_Alpha>>,
   <<descriptor_Depth, descriptor_Composite>>,
   <<descriptor_Red, descriptor_Green>>}

\* one Luminance element, one or two Chrominance elements and at most one
\* Alpha element, of one channel each, in every file order
YCbCrPlanes ==
  {ds \in UNION {[1..n -> {descriptor_Luminance, descriptor_Chrominance,
                           descriptor_Alpha}] : n \in 2..4} :
     /\ Cardinality({i \in DOMAIN ds : ds[i] = descriptor_Luminance}) = 1
     /\ Cardinality({i \in DOMAIN ds : ds[i] = descriptor_Chrominance}) \in {1, 2}
     /\ Cardinality({i \in DOMAIN ds : ds[i] = descriptor_Alpha}) <= 1}

\* planar files with an element that is skipped: the image depth counts the
\* channels of the other elements only
SkippedPlanes ==
  {<<descriptor_Red, descriptor_Green, descriptor_Blue, descriptor_Depth>>,
   <<descriptor_Red, descriptor_Composite, descriptor_Green, descriptor_Blue>>}

SkipFile(width, height, descriptors, bits, packing, transfer, isMSB, srcFormat) ==
  [PlanarFile(width, height, descriptors, bits, packing, transfer, isMSB, srcFormat)
     EXCEPT !.depth = 3]

\* the descriptors converted through the Y'CbCr matrix
MatrixDescriptors ==
  {descriptor_Luminance, descriptor_YA, descriptor_CbYCr, descriptor_CbYCrY,
   descriptor_CbYACrYA, descriptor_CbYCrA}

\* element el with reference low and high code values both ref
FlatRange(el, ref) == [el EXCEPT !.refLowData = ref, !.refHighData = ref]

ReadFiles ==
  {SingleElementFile(w, h,
                     FlatRange(LogImageElement(d, DepthOf(d), 8, 1, transfer_Linear, 0),
                               16),
                     0, format_DPX) :
     w \in 1..MaxWidth, h \in 1..MaxHeight, d \in MatrixDescriptors}
  \cup
  {PlanarFile(w, h, ds, 8, 1, transfer_Linear, 1, format_DPX) :
     w \in 1..MaxWidth, h \in 1..MaxHeight, ds \in YCbCrPlanes}
  \cup
  {SkipFile(w, h, ds, 8, 1, transfer_Linear, 1, format_DPX) :
     w \in 1..MaxWidth, h \in 1..MaxHeight, ds \in SkippedPlanes}
  \cup
  {SingleElementFile(w, h, LogImageElement(d, DepthOf(d), l[1], l[2],
                                           transfer_Linear, 0),
                     1, format_DPX) :
     w \in 1..MaxWidth, h \in 1..MaxHeight,
     d \in {descriptor_RGB, descriptor_RGBA, descriptor_Luminance},
     l \in ReadLayouts}
  \cup
  {SingleElementFile(w, h, LogImageElement(descriptor_Luminance, 1, 10, packing,
                                           transfer_Linear, 0),
                     0, format_Cineon) :
     w \in 1..MaxWidth, h \in 1..MaxHeight, packing \in {0, 1, 2}}
  \cup
  {SingleElementFile(w, h, LogImageElement(d, DepthOf(d), 8, 1, transfer, 0),
                     0, format_DPX) :
     w \in 1..MaxWidth, h \in 1..MaxHeight, d \in ReadDescriptors,
     transfer \in ReadTransfers}
  \cup
  {PlanarFile(w, h, ds, l[1], l[2], l[3], 1, format_DPX) :
     w \in 1..MaxWidth, h \in 1..MaxHeight, ds \in Planes,
     l \in {<<8, 1, transfer_Linear>>, <<8, 1, transfer_PrintingDensity>>,
            <<24, 1, transfer_Linear>>}}

InitRead ==
  /\ logImage \in ReadFiles
  /\ disk \in {MixBytes(DiskSize(logImage)), <<>>}
  /\ outBuf = Fill(4 * logImage.width * logImage.height, Stale)
  /\ call = NoCall
  /\ before = NoCall

NextRead == GetDataRGBA

SpecRead == InitRead /\ [][NextRead]_vars

(***************************************************************************)
(* A file is created, written, closed and opened again, then read: the     *)
(* header gives the reader the LogImageFile the writer had.                *)
(***************************************************************************)
RoundTripFiles ==
  {SingleElementFile(w, h, LogImageElement(d, DepthOf(d), l[1], l[2],
                                           transfer_Linear, 0),
                     isMSB, format_DPX) :
     w \in 1..MaxWidth, h \in 1..MaxHeight,
     d \in {descriptor_RGB, descriptor_RGBA},
     l \in Layouts \ {<<1, 1>>}, isMSB \in {0, 1}}
  \cup
  {SingleElementFile(w, h, LogImageElement(d, DepthOf(d), 8, 1, transfer, 0),
                     1, format_Cineon) :
     w \in 1..MaxWidth, h \in 1..MaxHeight,
     d \in {descriptor_RGB, descriptor_RGBA},
     transfer \in {transfer_UserDefined, transfer_Logarithmic}}

InitRoundTrip ==
  /\ logImage \in RoundTripFiles
  /\ disk = <<>>
  /\ outBuf = Fill(4 * logImage.width * logImage.height, Stale)
  /\ call = NoCall
  /\ before = NoCall

NextRoundTrip == SetDataRGBA \/ GetDataRGBA

SpecRoundTrip == InitRoundTrip /\ [][NextRoundTrip]_vars

(***************************************************************************)
(* getRowLength on its own, for elements of depth 1 to 4.                  *)
(***************************************************************************)
RowLength ==
  /\ call.op = "none"
  /\ before' = call
  /\ call' = [NoCall EXCEPT
                !.op = "rowLength", !.status = "returned",
                !.rowLength = getRowLength(logImage.width, logImage.element[1])]
  /\ UNCHANGED <<logImage, disk, outBuf>>

RowFiles ==
  {SingleElementFile(w, 1, LogImageElement(d, DepthOf(d), l[1], l[2],
                                           transfer_Linear, 0),
                     1, format_DPX) :
     w \in 1..MaxRowWidth,
     d \in {descriptor_Luminance, descriptor_YA, descriptor_RGB, descriptor_RGBA},
     l \in ReadLayouts}

InitRow ==
  /\ logImage \in RowFiles
  /\ disk = <<>>
  /\ outBuf = <<>>
  /\ call = NoCall
  /\ before = NoCall

NextRow == RowLength

SpecRow == InitRow /\ [][NextRow]_vars

(***************************************************************************)
(* logImageElementGetData on its own: one element of depth 1 to 4 in each  *)
(* layout, over files of several byte patterns.                            *)
(***************************************************************************)
\* the plane is allocated cleared, as logImageGetDataRGBA does, and unpacked
ElementGetData ==
  /\ call.op = "none"
  /\ before' = call
  /\ \E r \in {logImageElementGetData(logImage, logImage.element[1], disk,
                                      NewPixels(logImage, logImage.element[1].depth),
                                      FALSE)} :
       call' = [NoCall EXCEPT
                  !.op = "unpack", !.status = "returned", !.rc = r.rc,
                  !.planes = <<[null |-> FALSE, data |-> r.data]>>,
                  !.reads = IF "reads" \in DOMAIN r THEN r.reads ELSE <<>>]
  /\ UNCHANGED <<logImage, disk, outBuf>>

\* byte k of a file is (k * step + first) % 256
BytePatterns == {<<37, 11>>, <<0, 255>>, <<91, 200>>, <<0, 240>>, <<113, 15>>}

PatternBytes(p, n) == [k \in 1..n |-> (k * p[1] + p[2]) % 256]

UnpackFiles ==
  {SingleElementFile(w, h, LogImageElement(d, DepthOf(d), l[1], l[2],
                                           transfer_Linear, 0),
                     isMSB, srcFormat) :
     w \in 1..MaxWidth, h \in 1..MaxHeight,
     d \in {descriptor_Luminance, descriptor_YA, descriptor_RGB, descriptor_RGBA},
     l \in Layouts, isMSB \in {0, 1}, srcFormat \in {format_DPX, format_Cineon}}

InitUnpack ==
  /\ logImage \in UnpackFiles
  /\ \E p \in BytePatterns, short \in {0, 1} :
       disk = PatternBytes(p, DiskSize(logImage) - short)
  /\ outBuf = <<>>
  /\ call = NoCall
  /\ before = NoCall

NextUnpack == ElementGetData

SpecUnpack == InitUnpack /\ [][NextUnpack]_vars

(***************************************************************************)
(* The conversions on their own: convertLogElementToRGBA on the samples of *)
(* an element and convertRGBAToLogElement on the caller's pixels.  A load  *)
(* outside the source is undefined: the call either dies or goes on.       *)
(***************************************************************************)
\* the samples of an element, each different from the others
ElementSamples(n) == [k \in 1..n |-> Frac(k, 16)]

ConvertToRGBA ==
  /\ call.op = "none"
  /\ before' = call
  /\ \E linear \in {0, 1} :
     \E src \in {ElementSamples(NumPixels(logImage) * logImage.element[1].depth)} :
     \E r \in {convertLogElementToRGBA(src, Fill(4 * NumPixels(logImage), Stale),
                                       logImage, logImage.element[1], linear,
                                       "none")} :
     \E outcome \in (IF r.eff.oob THEN {"crashed", "returned"} ELSE {"returned"}) :
       /\ outBuf' = r.dst
       /\ call' = [NoCall EXCEPT
                     !.op = "toRGBA", !.status = outcome, !.rc = r.rc,
                     !.eff = r.eff, !.data = src, !.linear = linear,
                     !.lut = r.lut]
  /\ UNCHANGED <<logImage, disk>>

ConvertFromRGBA ==
  /\ call.op = "none"
  /\ before' = call
  /\ \E linear \in {0, 1}, p \in Patterns :
     \E src \in {DataOf(p, logImage.width, logImage.height)} :
     \E r \in {convertRGBAToLogElement(src, NewPixels(logImage, logImage.depth),
                                       logImage, logImage.element[1], linear,
                                       "none")} :
       /\ outBuf' = r.dst
       /\ call' = [NoCall EXCEPT
                     !.op = "fromRGBA", !.status = "returned", !.rc = r.rc,
                     !.eff = r.eff, !.data = src, !.linear = linear,
                     !.lut = r.lut]
  /\ UNCHANGED <<logImage, disk>>

ConvertFiles ==
  {SingleElementFile(w, h, LogImageElement(d, DepthOf(d), 8, 1, transfer, 0),
                     0, format_DPX) :
     w \in 1..MaxWidth, h \in 1..MaxHeight, d \in ReadDescriptors,
     transfer \in {transfer_Unspecified, transfer_UserDefined, transfer_Linear,
                   transfer_Logarithmic, transfer_PrintingDensity, 6}}

InitConvert ==
  /\ logImage \in ConvertFiles
  /\ disk = <<>>
  /\ outBuf = <<>>
  /\ call = NoCall
  /\ before = NoCall

NextConvert == ConvertToRGBA \/ ConvertFromRGBA

SpecConvert == InitConvert /\ [][NextConvert]_vars

(***************************************************************************)
(* logImageOpenFromMemory and logImageOpenFromFile over buffers and files  *)
(* that start with a magic number, a part of one or something else.        *)
(***************************************************************************)
OpenFromMemory ==
  /\ call.op = "none"
  /\ before' = call
  /\ call' = [NoCall EXCEPT !.op = "openMemory", !.status = "returned",
                            !.open = logImageOpenFromMemory(disk, Len(disk))]
  /\ UNCHANGED <<logImage, disk, outBuf>>

OpenFromFile ==
  /\ call.op = "none"
  /\ before' = call
  /\ \E exists \in BOOLEAN :
       call' = [NoCall EXCEPT !.op = "openFile", !.status = "returned",
                              !.open = logImageOpenFromFile(disk, exists)]
  /\ UNCHANGED <<logImage, disk, outBuf>>

\* starts of files: the four magic byte orders and near misses
FileStarts ==
  {<<83, 68, 80, 88>>, <<88, 80, 68, 83>>, <<128, 42, 95, 215>>,
   <<215, 95, 42, 128>>, <<83, 68, 80, 89>>, <<80, 88, 83, 68>>,
   <<128, 42, 95, 214>>, <<0, 0, 0, 0>>, <<83, 68, 88, 80>>,
   <<42, 128, 215, 95>>}

OpenBuffers ==
  {SubSeq(s \o t, 1, n) : s \in FileStarts, t \in {<<0, 0>>, <<7, 215>>}, n \in 0..6}

InitOpen ==
  /\ logImage = SingleElementFile(1, 1, LogImageElement(descriptor_RGB, 3, 8, 1,
                                                        transfer_Linear, 0),
                                  0, format_DPX)
  /\ disk \in OpenBuffers
  /\ outBuf = <<>>
  /\ call = NoCall
  /\ before = NoCall

NextOpen == OpenFromMemory \/ OpenFromFile

SpecOpen == InitOpen /\ [][NextOpen]_vars

(***************************************************************************)
(* getLogToLinLut: the table of a printing-density element.  The reference *)
(* black and white code values of the file are floats, here rationals; an  *)
(* entry is recorded with the branch of the loop that computed it.         *)
(***************************************************************************)
softClip == 0

\* breakPoint = logImage->referenceWhite - softClip
breakPoint(image) ==
  <<image.referenceWhite[1] - softClip * image.referenceWhite[2],
    image.referenceWhite[2]>>

\* a table whose every entry from referenceBlack on is the power of ten
LutBranchNoKnee(image, i) ==
  IF i * image.referenceBlack[2] < image.referenceBlack[1] THEN "black"
  ELSE "power"

\* the branch of the loop body taken for index i
LutBranch(image, i) ==
  IF i * image.referenceBlack[2] < image.referenceBlack[1] THEN "black"
  ELSE IF i * breakPoint(image)[2] > breakPoint(image)[1] THEN "knee"
  ELSE "power"

\* the allocation, then lut[i] for every i < lutsize, with no null check
getLogToLinLut(image, logElement, fail) ==
  IF fail = LutSite(LogToLin) THEN [eff |-> NullDeref, lut |-> <<>>]
  ELSE [eff |-> Alloc(LutSite(LogToLin)),
        lut |-> [k \in 1..(logElement.maxValue + 1) |->
                   [branch |-> LutBranch(image, k - 1),
                    value |-> IF LutBranch(image, k - 1) = "black" THEN Zero
                              ELSE <<k - 1, -LogToLin>>]]]

GetLogToLinLut ==
  /\ call.op = "none"
  /\ before' = call
  /\ \E fail \in {"none", LutSite(LogToLin)} :
       \E r \in {getLogToLinLut(logImage, logImage.element[1], fail)} :
         call' = [NoCall EXCEPT
                    !.op = "lut", !.fail = fail, !.eff = r.eff, !.data = r.lut,
                    !.status = IF r.eff.nullDeref THEN "crashed" ELSE "returned"]
  /\ UNCHANGED <<logImage, disk, outBuf>>

\* reference code values: the ends of the range, the defaults 95 and 685 of
\* 1023 scaled to the element, a value between two codes and one past the
\* largest code
ReferenceCodes(max) ==
  {<<0, 1>>, Frac(95 * max, 1023), Frac(685 * max, 1023), <<1, 2>>,
   <<max, 1>>, <<max + 10, 1>>}

LutFiles ==
  {SingleElementFile(1, 1, LogImageElement(descriptor_RGB, 3, bits, 1,
                                           transfer_PrintingDensity, 0),
                     0, format_DPX)
     @@ [referenceBlack |-> rb, referenceWhite |-> rw] :
     bits \in {1, 8, 10},
     rb \in UNION {ReferenceCodes(MaxValueOf(b)) : b \in {1, 8, 10}},
     rw \in UNION {ReferenceCodes(MaxValueOf(b)) : b \in {1, 8, 10}}}

InitLut ==
  /\ logImage \in
       {f \in LutFiles :
          {f.referenceBlack, f.referenceWhite}
            \subseteq ReferenceCodes(f.element[1].maxValue)}
  /\ disk = <<>>
  /\ outBuf = <<>>
  /\ call = NoCall
  /\ before = NoCall

NextLut == GetLogToLinLut

SpecLut == InitLut /\ [][NextLut]_vars

(***************************************************************************)
(* Properties of logImageGetDataRGBA.                                      *)
(***************************************************************************)
\* the buffers logImageGetDataRGBA itself allocates
GetBuffers == {PlaneSite(i) : i \in 0..7} \cup {"mergedData"}

\* C1: when logImageGetDataRGBA has returned, on whatever exit path, every
\* plane buffer and the merged buffer it allocated has been freed.
C1_BuffersFreed ==
  (call.op = "get" /\ call.status = "returned")
    => Live(call.eff) \cap GetBuffers = {}

\* the descriptors convertLogElementToRGBA is asked to take
SupportedDescriptors ==
  {descriptor_RGB, descriptor_RGBA, descriptor_ABGR, descriptor_Luminance,
   descriptor_CbYCr, descriptor_CbYCrY, descriptor_CbYACrYA, descriptor_CbYCrA,
   descriptor_YA}

\* the descriptor of the element that is converted: the only element, or
\* the merged one
FinalDescriptor ==
  IF logImage.numElements = 1 THEN logImage.element[1].descriptor
  ELSE call.merged

\* the elements whose data is loaded
LoadedElements ==
  {i \in 1..logImage.numElements :
     logImage.element[i].descriptor \notin {descriptor_Depth, descriptor_Composite}}

UnsupportedLayout ==
  \E i \in LoadedElements :
    \/ logImage.element[i].bitsPerSample \notin {1, 8, 10, 12, 16}
    \/ /\ logImage.element[i].bitsPerSample \in {10, 12}
       /\ logImage.element[i].packing \notin {0, 1, 2}

\* the transfer is one the converter of the final descriptor has no case for
UnhandledTransfer ==
  CASE FinalDescriptor = descriptor_RGB ->
         logImage.element[1].transfer \notin 0..4
    [] FinalDescriptor \in {descriptor_RGBA, descriptor_ABGR} ->
         logImage.element[1].transfer \notin 1..4
    [] OTHER -> logImage.element[1].transfer \notin {2, 5, 6, 7, 8}

UnsupportedFormat ==
  \/ UnsupportedLayout
  \/ FinalDescriptor \notin SupportedDescriptors
  \/ UnhandledTransfer

C3_OutputUntouched ==
  (call.op = "get" /\ call.status = "returned" /\ call.rc # 0)
    => outBuf = call.data

\* C3 happens: the element was read from the file and the conversion
\* refused it; the buffer of the caller is as it was
C3_Witness ==
  /\ call.op = "get" /\ call.status = "returned" /\ call.rc # 0
  /\ call.eff.allocs # <<>>
  /\ disk # <<>>
  /\ call.fail = "none" /\ call.seekFailAt = -1
  /\ ~UnsupportedLayout
  /\ outBuf = call.data /\ Len(outBuf) = 4 * logImage.width * logImage.height

(***************************************************************************)
(* Properties of logImageSetDataRGBA and of the row writers.               *)
(***************************************************************************)
\* C4: logImageSetDataRGBA on a file whose element[0] is not RGB or RGBA, or
\* whose bitsPerSample is not 8, 10, 12 or 16, writes no byte to the file
\* and, when it returns, returns non-zero.
C4_UnsupportedWriteFails ==
  (/\ call.op = "set"
   /\ \/ logImage.element[1].descriptor \notin {descriptor_RGB, descriptor_RGBA}
      \/ logImage.element[1].bitsPerSample \notin {8, 10, 12, 16})
    => /\ disk = <<>>
       /\ call.status = "returned" => call.rc # 0

\* C4 happens: an ABGR file was given pixels, and a 1-bit RGB file
C4_Witness ==
  /\ call.op = "set" /\ call.status = "returned" /\ call.fail = "none"
  /\ \/ logImage.element[1].descriptor = descriptor_ABGR
     \/ /\ logImage.element[1].descriptor = descriptor_RGB
        /\ logImage.element[1].bitsPerSample = 1
  /\ call.rc # 0 /\ disk = <<>>
  /\ call.eff.allocs # <<>>

\* the allocation call.fail names is one the call of logImageSetDataRGBA asked for
SetAsked ==
  LET el == logImage.element[1]
      converts == \/ el.descriptor = descriptor_RGB /\ el.transfer \in 0..4
                  \/ el.descriptor = descriptor_RGBA /\ el.transfer \in 1..4
  IN  CASE call.fail = "elementData" -> TRUE
        [] call.fail \in {"srgbSrc", "lutLinToSrgb"} -> call.linear # 0
        [] call.fail = "lutLinToLog" ->
             converts /\ el.transfer = transfer_PrintingDensity
        [] call.fail = "row" -> converts /\ el.bitsPerSample \in {8, 10, 12, 16}
        [] OTHER -> FALSE

\* C5: when an allocation of logImageSetDataRGBA returns null the call
\* returns non-zero, has freed every buffer it had allocated, and has not
\* read or written through the null pointer.
C5_NullAllocationFails ==
  (call.op = "set" /\ SetAsked)
    => /\ call.status = "returned" /\ call.rc # 0
       /\ Live(call.eff) = {}
       /\ ~call.eff.nullDeref

\* C6: getRowLength of a supported (bitsPerSample, packing), a width of at
\* least 1 and a depth of 1 to 4 is a multiple of 4.
C6_RowLengthMultipleOf4 ==
  (/\ call.op = "rowLength"
   /\ <<logImage.element[1].bitsPerSample, logImage.element[1].packing>> \in Layouts)
    => call.rowLength % 4 = 0

\* the row-length table: bytes of a row of n samples
TableRowBytes(n, bits, packing) ==
  CASE bits = 8 -> CeilDiv(n, 4) * 4
    [] bits = 10 /\ packing \in {1, 2} -> CeilDiv(n, 3) * 4
    [] bits = 10 /\ packing = 0 -> CeilDiv(n * 10, 32) * 4
    [] bits = 12 /\ packing \in {1, 2} -> n * 2
    [] bits = 12 /\ packing = 0 -> CeilDiv(n * 12, 32) * 4
    [] bits = 16 -> n * 2
    [] OTHER -> -1

\* sample x of row y of the element, as it stands in the caller's RGBA pixels
PixelSample(data, y, x) ==
  data[4 * (y * logImage.width + (x \div logImage.depth))
       + (x % logImage.depth) + 1]

\* C7: a successful logImageSetDataRGBA writes height rows, row y after row
\* y-1, each of the byte size the row-length table gives; the bytes of an
\* 8-bit row are the codes of that row's samples.
C7_RowsOfTableSize ==
  (call.op = "set" /\ call.status = "returned" /\ call.rc = 0)
    => /\ Len(call.rows) = logImage.height
       /\ disk = Flatten(call.rows)
       /\ \A y \in 1..logImage.height :
            /\ Len(call.rows[y])
                 = TableRowBytes(logImage.width * logImage.depth,
                                 logImage.element[1].bitsPerSample,
                                 logImage.element[1].packing)
            /\ (logImage.element[1].bitsPerSample = 8 /\ ~call.lut)
                 => \A x \in 0..(logImage.width * logImage.depth - 1) :
                      call.rows[y][x + 1]
                        = float_uint(PixelSample(call.data, y - 1, x), 255)

\* C7 happens: two rows of a 10-bit packed and of a 12-bit filled file
C7_Witness ==
  /\ call.op = "set" /\ call.status = "returned" /\ call.rc = 0
  /\ logImage.height = 2 /\ Len(call.rows) = 2
  /\ logImage.element[1].bitsPerSample \in {10, 12}
  /\ Len(disk) = 2 * call.rowLength

\* bit b of the 32-bit word the 10-bit layout makes of the codes c
\* (c[1] at bit 22, c[2] at bit 12, c[3] at bit 2; a missing sample is 0)
Lane(c, b) ==
  IF b >= 22 THEN (c[1] \div 2 ^ (b - 22)) % 2
  ELSE IF b >= 12 THEN (c[2] \div 2 ^ (b - 12)) % 2
  ELSE IF b >= 2 THEN (c[3] \div 2 ^ (b - 2)) % 2
  ELSE 0

\* the four bytes of that word in file order
LaneBytes(c, isMSB) ==
  [i \in 1..4 |->
     LET top == IF isMSB # 0 THEN 8 * (4 - i) ELSE 8 * (i - 1)
     IN  Lane(c, top) + 2 * Lane(c, top + 1) + 4 * Lane(c, top + 2)
         + 8 * Lane(c, top + 3) + 16 * Lane(c, top + 4) + 32 * Lane(c, top + 5)
         + 64 * Lane(c, top + 6) + 128 * Lane(c, top + 7)]

\* the codes of the samples 3j, 3j+1, 3j+2 of row y
WordCodes(data, y, j) ==
  [k \in 1..3 |->
     IF 3 * j + k - 1 < logImage.width * logImage.depth
       THEN float_uint(PixelSample(data, y, 3 * j + k - 1), 1023)
       ELSE 0]

\* C9: every 32-bit word of every row the 10-bit writer sends is made of
\* the samples of that row alone, lanes without a sample and pad bits zero.
C9_WordsOfOwnRow ==
  (/\ call.op = "set" /\ call.status = "returned" /\ call.rc = 0
   /\ logImage.element[1].bitsPerSample = 10 /\ ~call.lut)
    => \A y \in 1..Len(call.rows) :
         \A j \in 0..(Len(call.rows[y]) \div 4 - 1) :
           SubSeq(call.rows[y], 4 * j + 1, 4 * j + 4)
             = LaneBytes(WordCodes(call.data, y - 1, j), logImage.isMSB)

\* the codes logImageElementGetData gives for the bytes of the file, read
\* by the unpacker of element el
Decoded(el) ==
  logImageElementGetData(logImage, el, disk,
                         NewPixels(logImage, logImage.depth), FALSE)

\* the unpacker of el took the file and gives back the codes written
DecodesToWritten(el) ==
  /\ Decoded(el).rc = 0
  /\ \A y \in 0..(logImage.height - 1) :
       \A x \in 0..(logImage.width * logImage.depth - 1) :
         float_uint(Decoded(el).data[y * logImage.width * logImage.depth + x + 1],
                    el.maxValue)
           = float_uint(PixelSample(call.data, y, x), el.maxValue)

\* a 10- or 12-bit file was written from pixels that went through no table
PackedWritten ==
  /\ call.op = "set" /\ call.status = "returned" /\ call.rc = 0
  /\ logImage.element[1].bitsPerSample \in {10, 12} /\ ~call.lut

RoundTripDone ==
  /\ before.op = "set" /\ before.status = "returned" /\ before.rc = 0
  /\ call.op = "get" /\ call.status = "returned" /\ call.rc = 0
  /\ before.linear = 0 /\ call.linear = 0
  /\ logImage.element[1].descriptor \in {descriptor_RGB, descriptor_RGBA}
  /\ logImage.element[1].packing = 1
  /\ logImage.element[1].transfer
       \in {transfer_UserDefined, transfer_Linear, transfer_Logarithmic}
  /\ \/ logImage.element[1].bitsPerSample \in {8, 12, 16}
     \/ /\ logImage.element[1].bitsPerSample = 10
        /\ logImage.element[1].descriptor = descriptor_RGB

\* C8: after the round trip every R, G, B sample (and A of an RGBA element)
\* read has the code that was written, and the alpha read from an RGB
\* element is 1.0.
C8_RoundTripCodes ==
  RoundTripDone
    => \A p \in 0..(logImage.width * logImage.height - 1) :
         /\ \A c \in 1..logImage.depth :
              /\ IsNum(outBuf[4 * p + c])
              /\ float_uint(outBuf[4 * p + c], logImage.element[1].maxValue)
                   = float_uint(before.data[4 * p + c],
                                logImage.element[1].maxValue)
         /\ logImage.depth = 3 => outBuf[4 * p + 4] = One

\* C8 happens: two rows of two pixels went through a 12-bit RGBA file and a
\* code that is neither 0 nor the maximum came back
C8_Witness ==
  /\ RoundTripDone
  /\ logImage.width = 2 /\ logImage.height = 2
  /\ logImage.element[1].bitsPerSample = 12
  /\ logImage.element[1].descriptor = descriptor_RGBA
  /\ \E k \in 1..Len(outBuf) : float_uint(outBuf[k], 4095) \notin {0, 4095}

(***************************************************************************)
(* Properties of the assembly of planar elements.                          *)
(***************************************************************************)
\* the descriptors of the elements of the file, in file order
Descriptors == [i \in 1..logImage.numElements |-> logImage.element[i].descriptor]

\* three planes of depth 1, Red, Green and Blue in some order
RGBPlanes ==
  /\ logImage.numElements = 3
  /\ logImage.depth = 3
  /\ Range(Descriptors) = {descriptor_Red, descriptor_Green, descriptor_Blue}
  /\ \A i \in 1..3 : logImage.element[i].depth = 1

\* the plane loaded for the element of descriptor d
PlaneOf(d) ==
  call.planes[CHOOSE i \in 1..logImage.numElements : Descriptors[i] = d].data

\* the read got as far as the merged buffer
Merged ==
  /\ call.op = "get"
  /\ Len(call.planes) = logImage.numElements
  /\ call.fail # "mergedData"

\* C11: three planes Red, Green and Blue in any file order merge to
\* descriptor RGB, and pixel k of the merged buffer is sample k of the Red
\* plane, then of the Green plane, then of the Blue plane.
C11_PlanesMergeToRGB ==
  (Merged /\ RGBPlanes) =>
    /\ call.merged = descriptor_RGB
    /\ Len(call.il.data) = 3 * NumPixels(logImage)
    /\ \A k \in 0..(NumPixels(logImage) - 1) :
         /\ call.il.data[3 * k + 1] = PlaneOf(descriptor_Red)[k + 1]
         /\ call.il.data[3 * k + 2] = PlaneOf(descriptor_Green)[k + 1]
         /\ call.il.data[3 * k + 3] = PlaneOf(descriptor_Blue)[k + 1]

\* planes stored Blue first, of different samples, merged for two pixels
C11_Witness ==
  /\ Merged
  /\ RGBPlanes
  /\ Descriptors = <<descriptor_Blue, descriptor_Red, descriptor_Green>>
  /\ NumPixels(logImage) >= 2
  /\ call.status = "returned"
  /\ call.rc = 0
  /\ IsNum(call.il.data[1])
  /\ call.il.data[1] # call.il.data[3]

\* the elements logImageGetDataRGBA skips
Skipped(el) == el.descriptor \in {descriptor_Depth, descriptor_Composite}

\* file f without the elements that are skipped
WithoutSkipped(f) ==
  LET Keep(el) == ~Skipped(el)
      kept == SelectSeq(f.element, Keep)
  IN  [f EXCEPT !.element = kept, !.numElements = Len(kept)]

\* a skipped element together with elements that are read
HasSkipped ==
  /\ logImage.numElements > 1
  /\ \E i \in 1..logImage.numElements : Skipped(logImage.element[i])
  /\ \E i \in 1..logImage.numElements : ~Skipped(logImage.element[i])

\* C12: a Depth or Composite element next to supported elements gets no
\* plane, the merge takes samples from the planes of the other elements
\* only, and the call gives what it gives for the file without the element.
C12_SkippedElementsIgnored ==
  (call.op = "get" /\ HasSkipped /\ call.fail = "none" /\ call.seekFailAt = -1) =>
    /\ call.status = "returned"
    /\ \A i \in 1..Len(call.planes) :
         Skipped(logImage.element[i]) => call.planes[i].null
    /\ ~call.il.badIndex
    /\ call.rc = logImageGetDataRGBA(WithoutSkipped(logImage), disk, call.data,
                                     call.linear, "none", -1, 1).rc
    /\ outBuf = logImageGetDataRGBA(WithoutSkipped(logImage), disk, call.data,
                                    call.linear, "none", -1, 1).data

(***************************************************************************)
(* Properties of the conversions on read.                                  *)
(***************************************************************************)
\* C13: reading a Luminance, YA, CbYCr, CbYCrY, CbYACrYA or CbYCrA element
\* whose refLowData equals its refHighData returns non-zero.
C13_FlatRangeFails ==
  (/\ call.op = "get"
   /\ call.status = "returned"
   /\ logImage.numElements = 1
   /\ logImage.element[1].descriptor \in MatrixDescriptors
   /\ logImage.element[1].refLowData = logImage.element[1].refHighData)
    => call.rc # 0

(***************************************************************************)
(* Properties of logImageElementGetData.                                   *)
(***************************************************************************)
\* the element unpacked, the samples of one of its rows and its plane
El == logImage.element[1]

RowLen == logImage.width * El.depth

Plane == call.planes[1].data

Unpacked == call.op = "unpack" /\ call.rc = 0 /\ <<El.bitsPerSample, El.packing>> \in Layouts

\* the word at byte pos of the file, in the file's byte order, as a number's bits
FileWord(pos) == ReadWord(disk, pos, logImage.isMSB)

\* bit i of the words of row y, the rows being of rowBytes bytes
StreamBit(y, rowBytes, i) ==
  FileWord(El.dataOffset + y * rowBytes + 4 * (i \div 32))[(i % 32) + 1]

\* the code of nbits bits at bit x * nbits of the words of row y, low bit first
StreamCode(nbits, y, x) ==
  LET rowBytes == 4 * CeilDiv(RowLen * nbits, 32)
      bit == [j \in 0..(nbits - 1) |-> StreamBit(y, rowBytes, x * nbits + j)]
      pow == [j \in 0..(nbits - 1) |-> 2 ^ j]
      sum[j \in 0..nbits] == IF j = 0 THEN 0 ELSE sum[j - 1] + bit[j - 1] * pow[j - 1]
  IN  sum[nbits]

\* the shift of sample j (0, 1, 2) of a 10-bit filled word
Shift10(j) ==
  LET low == IF El.packing = 1 THEN 2 ELSE 0
  IN  IF logImage.depth = 1 /\ logImage.srcFormat = format_DPX
        THEN low + 10 * j ELSE low + 10 * (2 - j)

\* the code of sample x of row y of a 10-bit filled element: three samples
\* to a word, rows starting on a word
Filled10Code(y, x) ==
  BitsVal(FileWord(El.dataOffset + 4 * (y * CeilDiv(RowLen, 3) + (x \div 3))),
          Shift10(x % 3) + 1, Shift10(x % 3) + 10)

\* the 16-bit value of sample x of row y, the values stored one after the other
FileShort(y, x) ==
  ReadShort(disk, El.dataOffset + 2 * (y * RowLen + x), logImage.isMSB)

\* the code of sample x of row y of a 12-bit filled element
Filled12Code(y, x) ==
  IF El.packing = 1 THEN FileShort(y, x) \div 16 ELSE FileShort(y, x) % 4096

\* the code of sample x of row y in the element's layout
LayoutCode(y, x) ==
  CASE El.bitsPerSample = 1 -> StreamCode(1, y, x)
    [] El.bitsPerSample = 8 ->
         disk[El.dataOffset + y * 4 * CeilDiv(RowLen, 4) + x + 1]
    [] El.bitsPerSample = 16 -> FileShort(y, x)
    [] El.bitsPerSample = 10 /\ El.packing = 0 -> StreamCode(10, y, x)
    [] El.bitsPerSample = 12 /\ El.packing = 0 -> StreamCode(12, y, x)
    [] El.bitsPerSample = 10 -> Filled10Code(y, x)
    [] OTHER -> Filled12Code(y, x)

\* C14: a successful unpack of an element of depth 1 to 4 in any supported
\* layout fills all width*height*depth positions of the plane, position
\* y*width*depth + x with sample x of row y; the 1-bit unpacker does so for
\* all width*depth samples of a row.
C14_EveryPositionUnpacked ==
  Unpacked =>
    /\ Len(Plane) = logImage.width * logImage.height * El.depth
    /\ \A y \in 0..(logImage.height - 1), x \in 0..(RowLen - 1) :
         Plane[y * RowLen + x + 1] = Frac(LayoutCode(y, x), El.maxValue)

\* C16: the 12-bit filled unpacker gives the code w >> 4 of each 16-bit word
\* w when packing is 1 and w & 0xFFF when packing is 2, so every sample is
\* code / 4095 with the code in 0..4095.
C16_Filled12Codes ==
  (Unpacked /\ El.bitsPerSample = 12 /\ El.packing \in {1, 2}) =>
    \A y \in 0..(logImage.height - 1), x \in 0..(RowLen - 1) :
      /\ Filled12Code(y, x) \in 0..4095
      /\ Plane[y * RowLen + x + 1] = Frac(Filled12Code(y, x), 4095)

\* 10-bit packed rows: the bit at which sample x starts in its word, the
\* word it starts in, and whether it runs over into the next word
Offset10(x) == (10 * x) % 32

PackedWord(y, j) == FileWord(El.dataOffset + y * 4 * CeilDiv(RowLen * 10, 32) + 4 * j)

Straddles(x) == Offset10(x) + 10 > 32

\* the bits of sample x left in the old word, and those at the head of the next
TailBits(y, x) == BitsVal(PackedWord(y, (10 * x) \div 32), Offset10(x) + 1, 32)

HeadBits(y, x) ==
  BitsVal(PackedWord(y, (10 * x) \div 32 + 1), 1, 10 - (32 - Offset10(x)))

Whole10(y, x) ==
  BitsVal(PackedWord(y, (10 * x) \div 32), Offset10(x) + 1, Offset10(x) + 10)

Packed10 == Unpacked /\ El.bitsPerSample = 10 /\ El.packing = 0

\* C17 as stated: a sample that straddles two words has the tail bits of the
\* old word as its high-order bits and the head bits of the new word as its
\* low-order bits; one that does not is (word >> offset) & 0x3FF, offset
\* advancing by 10 modulo 32.
C17_TailBitsHigh ==
  Packed10 =>
    \A y \in 0..(logImage.height - 1), x \in 0..(RowLen - 1) :
      Plane[y * RowLen + x + 1] =
        Frac(IF Straddles(x)
               THEN TailBits(y, x) * (2 ^ (10 - (32 - Offset10(x)))) + HeadBits(y, x)
               ELSE Whole10(y, x),
             1023)

\* C17 amended: a sample that straddles two words has the tail bits of the
\* old word as its low-order bits and the head bits of the new word as its
\* high-order bits; one that does not is (word >> offset) & 0x3FF, offset
\* advancing by 10 modulo 32.
C17_TailBitsLow ==
  Packed10 =>
    \A y \in 0..(logImage.height - 1), x \in 0..(RowLen - 1) :
      Plane[y * RowLen + x + 1] =
        Frac(IF Straddles(x)
               THEN HeadBits(y, x) * (2 ^ (32 - Offset10(x))) + TailBits(y, x)
               ELSE Whole10(y, x),
             1023)

\* a row of at least four samples, the fourth over two words with bits set
\* in both and the two readings of it apart
C17_Witness ==
  /\ Packed10
  /\ RowLen >= 4
  /\ Straddles(3)
  /\ TailBits(0, 3) # 0
  /\ HeadBits(0, 3) # 0
  /\ HeadBits(0, 3) * 4 + TailBits(0, 3) # TailBits(0, 3) * 256 + HeadBits(0, 3)
  /\ Plane[4] = Frac(HeadBits(0, 3) * 4 + TailBits(0, 3), 1023)

Filled10 == call.op = "unpack" /\ El.bitsPerSample = 10 /\ El.packing \in {1, 2}

\* C18: the 10-bit filled unpacker takes three samples from each word and a
\* new word at the start of every row, ceil(width*depth/3) words a row;
\* sample j of a word is (word >> s) & 0x3FF with s = 22, 12, 2 for packing 1
\* and 20, 10, 0 for packing 2, or 2, 12, 22 and 0, 10, 20 when the image
\* depth is 1 and the file is DPX.
C18_Filled10Lanes ==
  Filled10 =>
    /\ call.rc = 0 <=>
         Len(disk) >= El.dataOffset + 4 * logImage.height * CeilDiv(RowLen, 3)
    /\ call.rc = 0 =>
         \A y \in 0..(logImage.height - 1), x \in 0..(RowLen - 1) :
           Plane[y * RowLen + x + 1] = Frac(Filled10Code(y, x), 1023)

\* two rows of more than one word each, read downwards from shift 22
C18_Witness ==
  /\ Filled10
  /\ call.rc = 0
  /\ El.packing = 1
  /\ logImage.height = 2
  /\ RowLen >= 4
  /\ Shift10(0) = 22
  /\ Plane[1] # Plane[3]
  /\ Plane[1] # Plane[RowLen + 1]

\* the transfers converted without a table
StraightTransfers ==
  {transfer_Unspecified, transfer_UserDefined, transfer_Linear, transfer_Logarithmic}

\* a file of one element of descriptor d whose plane was unpacked, read with
\* no conversion to linear asked
ReadOne(d) ==
  /\ call.op = "get"
  /\ call.linear = 0
  /\ logImage.numElements = 1
  /\ logImage.element[1].descriptor = d
  /\ Len(call.planes) = 1
  /\ ~call.planes[1].null

\* C19: an ABGR element of a transfer other than printing density is read
\* by reversing the channels of each pixel, (R,G,B,A) of pixel k being
\* (src[4k+3], src[4k+2], src[4k+1], src[4k]), and by reading inside the
\* 4*width*height source samples only.
C19_ABGRReversed ==
  (ReadOne(descriptor_ABGR) /\ logImage.element[1].transfer \in StraightTransfers) =>
    /\ ~call.eff.oob
    /\ call.status = "returned"
    /\ call.rc = 0
    /\ \A k \in 0..(NumPixels(logImage) - 1), c \in 0..3 :
         outBuf[4 * k + c + 1] = call.planes[1].data[4 * k + (3 - c) + 1]

\* the element converted and its transfer
StraightElement == El.transfer \in StraightTransfers

\* C20: for RGB, RGBA and ABGR on read and RGB and RGBA on write, with a
\* transfer Unspecified, UserDefined, Linear or Logarithmic, the conversion
\* returns 0 and copies or reorders the samples through no lookup table
\* (alpha 1.0 where the element has none).
C20_StraightCopies ==
  /\ (/\ call.op = "toRGBA" /\ call.linear = 0 /\ StraightElement
      /\ El.descriptor \in {descriptor_RGB, descriptor_RGBA, descriptor_ABGR}) =>
       /\ call.rc = 0
       /\ ~call.lut
       /\ \A k \in 0..(NumPixels(logImage) - 1), c \in 0..3 :
            outBuf[4 * k + c + 1] =
              CASE El.descriptor = descriptor_RGBA -> call.data[4 * k + c + 1]
                [] El.descriptor = descriptor_ABGR -> call.data[4 * k + (3 - c) + 1]
                [] OTHER -> IF c = 3 THEN One ELSE call.data[3 * k + c + 1]
  /\ (/\ call.op = "fromRGBA" /\ call.linear = 0 /\ StraightElement
      /\ El.descriptor \in {descriptor_RGB, descriptor_RGBA}) =>
       /\ call.rc = 0
       /\ ~call.lut
       /\ \A k \in 0..(NumPixels(logImage) - 1), c \in 0..(El.depth - 1) :
            outBuf[El.depth * k + c + 1] = call.data[4 * k + c + 1]

(***************************************************************************)
(* Properties of the opens.                                                *)
(***************************************************************************)
\* the first four bytes are the bytes of magic number m in either order
StartsWith(m) ==
  /\ Len(disk) >= 4
  /\ \/ SubSeq(disk, 1, 4) = WordBytes(m)
     \/ SubSeq(disk, 1, 4) = [k \in 1..4 |-> WordBytes(m)[5 - k]]

\* the parser the first four bytes stand for
MagicParser ==
  IF StartsWith(DPX_FILE_MAGIC) THEN "dpxOpen"
  ELSE IF StartsWith(CINEON_FILE_MAGIC) THEN "cineonOpen"
  ELSE "none"

\* C15: logImageOpenFromMemory calls the DPX parser iff the first four bytes
\* are DPX_FILE_MAGIC in either byte order, otherwise the Cineon parser iff
\* they are CINEON_FILE_MAGIC in either byte order, otherwise returns null,
\* and does not look at a buffer of fewer than four bytes;
\* logImageOpenFromFile dispatches alike on a file it could open and read,
\* and leaves no FILE open.
C15_OpenDispatch ==
  /\ call.op = "openMemory" =>
       /\ call.open.parser = MagicParser
       /\ Len(disk) < 4 => (~call.open.sniffed /\ call.open.parser = "none")
  /\ call.op = "openFile" =>
       /\ call.open.handle # "open"
       /\ call.open.parser \in {MagicParser, "none"}
       /\ call.open.handle = "closed" => call.open.parser = MagicParser

\* a buffer of the byte-swapped DPX magic number and more, given to the DPX parser
C15_Witness ==
  /\ call.op = "openMemory"
  /\ Len(disk) > 4
  /\ SubSeq(disk, 1, 4) = <<83, 68, 80, 88>>
  /\ call.open.parser = "dpxOpen"

(***************************************************************************)
(* Properties of the assembly of Luminance and Chrominance elements.       *)
(***************************************************************************)
\* the positions in the file of the elements of descriptor d, first to last
ElementsOf(d) ==
  SelectSeq([i \in 1..logImage.numElements |-> i - 1],
            LAMBDA i : Descriptors[i + 1] = d)

\* one Luminance element with Chrominance elements and at most one Alpha
\* element, of one channel each
YCbCrFile ==
  /\ logImage.numElements > 1
  /\ Range(Descriptors) \subseteq
       {descriptor_Luminance, descriptor_Chrominance, descriptor_Alpha}
  /\ Len(ElementsOf(descriptor_Luminance)) = 1
  /\ Len(ElementsOf(descriptor_Chrominance)) \in {1, 2}
  /\ Len(ElementsOf(descriptor_Alpha)) <= 1
  /\ logImage.depth = logImage.numElements

\* C21: Luminance and Chrominance elements, with or without an Alpha
\* element, in any file order merge to the descriptor of the table for the
\* merged depth (CbYCrY for 2, CbYCr for 3 without alpha, CbYACrYA for 3
\* with alpha, CbYCrA for 4), with the Luminance element in slot 1, the
\* first Chrominance element in slot 0 and the second in slot 2.
C21_YCbCrAssembled ==
  (Merged /\ YCbCrFile) =>
    /\ call.merged =
         MergedYCbCr(descriptor_None, logImage.depth,
                     Len(ElementsOf(descriptor_Alpha)))
    /\ call.sorted[1] = ElementsOf(descriptor_Luminance)[1]
    /\ call.sorted[0] = ElementsOf(descriptor_Chrominance)[1]
    /\ Len(ElementsOf(descriptor_Chrominance)) = 2 =>
         call.sorted[2] = ElementsOf(descriptor_Chrominance)[2]

(***************************************************************************)
(* Properties of getLogToLinLut.                                           *)
(***************************************************************************)
\* the table is built
LutBuilt == call.op = "lut" /\ call.status = "returned"

\* the largest code of the element the table is built for
LutMax == logImage.element[1].maxValue

\* C22 as stated: with softClip = 0 no index of 0..maxValue takes the
\* branch for i > breakPoint; every index at or above referenceBlack is
\* computed by the power of ten; indices below referenceBlack are 0.
C22_KneeNeverTaken ==
  LutBuilt =>
    \A i \in 0..LutMax :
      /\ call.data[i + 1].branch # "knee"
      /\ i * logImage.referenceBlack[2] >= logImage.referenceBlack[1]
           => call.data[i + 1].branch = "power"
      /\ i * logImage.referenceBlack[2] < logImage.referenceBlack[1]
           => call.data[i + 1].value = Zero

\* C22, amended: with softClip = 0 the breakPoint is referenceWhite, and
\* the branch for i > breakPoint is taken for exactly the indices of
\* 0..maxValue that are at or above referenceBlack and above referenceWhite;
\* the indices from referenceBlack to referenceWhite are computed by the
\* power of ten; indices below referenceBlack are 0.
C22_KneeAboveWhite ==
  LutBuilt =>
    /\ Len(call.data) = LutMax + 1
    /\ \A i \in 0..LutMax :
         LET black == i * logImage.referenceBlack[2] < logImage.referenceBlack[1]
             above == i * logImage.referenceWhite[2] > logImage.referenceWhite[1]
         IN  /\ call.data[i + 1].branch = "knee" <=> (~black /\ above)
             /\ call.data[i + 1].branch = "power" <=> (~black /\ ~above)
             /\ black => call.data[i + 1].value = Zero

\* the 10-bit table with referenceBlack 95 and referenceWhite 685: entry 94
\* is 0, entry 685 the power of ten, entries 686 and 1023 the other branch
C22_Witness ==
  /\ LutBuilt
  /\ LutMax = 1023
  /\ logImage.referenceBlack = <<95, 1>>
  /\ logImage.referenceWhite = <<685, 1>>
  /\ call.data[94 + 1].value = Zero
  /\ call.data[685 + 1].branch = "power"
  /\ call.data[686 + 1].branch = "knee"
  /\ call.data[1023 + 1].branch = "knee"

(***************************************************************************)
(* Properties of the output buffer of logImageGetDataRGBA.                 *)
(***************************************************************************)
\* C23: when logImageGetDataRGBA has returned 0, every one of the
\* width*height*4 floats of the output buffer was written by the conversion,
\* for every descriptor and every width and height.
C23_OutputFullyWritten ==
  (call.op = "get" /\ call.status = "returned" /\ call.rc = 0) =>
    /\ Len(outBuf) = 4 * NumPixels(logImage)
    /\ \A k \in 1..Len(outBuf) : outBuf[k] # Stale

(***************************************************************************)
(* Properties of the interleave loop.                                      *)
(***************************************************************************)
\* the read of a file of several elements got as far as the interleave loop
Interleaving == Merged /\ logImage.numElements > 1

\* C24: every sortedElementData[i] the interleave loop dereferences, i in
\* 0..numElements-1, is the index of an element of the file whose plane was
\* allocated; the loop indexes neither element[-1] nor a null plane.
C24_SlotsValid ==
  Interleaving =>
    \A i \in 0..(logImage.numElements - 1) :
      /\ call.sorted[i] \in 0..(logImage.numElements - 1)
      /\ ~call.planes[call.sorted[i] + 1].null

\* every element has a channel, and the channels of the elements that are
\* assembled are the channels of the image
DepthsAddUp ==
  /\ \A i \in 1..logImage.numElements : logImage.element[i].depth >= 1
  /\ SumDepth(WithoutSkipped(logImage).element) = logImage.depth

\* C25: when every element has depth >= 1 and the depths of the assembled
\* elements sum to the image depth, the interleave loop ends after exactly
\* width*height passes, writes exactly width*height*depth samples into the
\* merged buffer and none past its end, and moves the cursor of each
\* element's plane by exactly width*height*element.depth, never past the
\* end of the plane.
C25_InterleaveExact ==
  (Interleaving /\ DepthsAddUp) =>
    /\ call.status # "hung"
    /\ call.il.passes = NumPixels(logImage)
    /\ Len(call.il.data) = NumPixels(logImage) * logImage.depth
    /\ ~call.il.pastMerged
    /\ ~call.il.pastPlane
    /\ \A e \in 0..(logImage.numElements - 1) :
         ~Skipped(logImage.element[e + 1]) =>
           Cardinality({i \in 0..(logImage.numElements - 1) :
                          call.sorted[i] = e}) = 1

(***************************************************************************)
(* Properties of the buffers logImageGetDataRGBA frees.                    *)
(***************************************************************************)
\* C26: logImageGetDataRGBA frees only buffers it allocated, each at most
\* once, and on no path a null plane pointer, a single Depth or Composite
\* element included.
C26_FreesOnlyAllocated ==
  call.op = "get" =>
    /\ ~call.eff.nullFree
    /\ Range(call.eff.frees) \subseteq Range(call.eff.allocs)
    /\ \A i, j \in 1..Len(call.eff.frees) :
         call.eff.frees[i] = call.eff.frees[j] => i = j

(***************************************************************************)
(* Properties of the row buffer of logImageSetData10.                      *)
(***************************************************************************)
\* logImageSetData10 ran on an element of depth 3 or 4 in one of the
\* packings 0, 1, 2, its row buffer allocated
Wrote10 ==
  /\ call.op = "set"
  /\ logImage.element[1].bitsPerSample = 10
  /\ logImage.depth \in {3, 4}
  /\ logImage.element[1].packing \in {0, 1, 2}
  /\ "row" \in Range(call.eff.allocs)

\* C27: every word index logImageSetData10 writes is below rowLength/4,
\* rowLength being the getRowLength value the row buffer was allocated
\* with: no word is stored past the end of the row buffer.
C27_WordsInsideRow ==
  Wrote10 => ~call.eff.oob

(***************************************************************************)
(* Properties of the packed unpackers.                                     *)
(***************************************************************************)
\* a 10-bit or 12-bit element whose samples follow each other bit by bit
PackedLayout == El.packing = 0 /\ El.bitsPerSample \in {10, 12}

\* the 32-bit words the samples of one row take
PackedRowWords == CeilDiv(RowLen * El.bitsPerSample, 32)

\* C28: the 10-bit and 12-bit packed unpackers start every row with the bit
\* accumulator cleared and read exactly ceil(n*bits/32) words for the row's
\* n = width*depth samples, all inside the bytes of the row,
\* dataOffset + y*rowBytes up to dataOffset + (y+1)*rowBytes; sample x of a
\* row is the code of bits x*bits .. x*bits + bits - 1 of the row's own
\* words, a code of 0..2^bits - 1.
C28_PackedRowsRead ==
  (Unpacked /\ PackedLayout) =>
    /\ Len(call.reads) = logImage.height * PackedRowWords
    /\ 4 * PackedRowWords <= getRowLength(logImage.width, El)
    /\ \A y \in 0..(logImage.height - 1) :
         /\ \A j \in 0..(PackedRowWords - 1) :
              call.reads[y * PackedRowWords + j + 1]
                = El.dataOffset + y * getRowLength(logImage.width, El) + 4 * j
         /\ \A x \in 0..(RowLen - 1) :
              /\ Plane[y * RowLen + x + 1]
                   = Frac(StreamCode(El.bitsPerSample, y, x), El.maxValue)
              /\ float_uint(Plane[y * RowLen + x + 1], El.maxValue)
                   \in 0..(2 ^ El.bitsPerSample - 1)

\* two rows of eight 10-bit samples: three words a row, the fourth and
\* the seventh sample across two words, the row ending inside its last
\* word, and the second row with a sample that is not 0
C28_Witness ==
  /\ Unpacked
  /\ PackedLayout
  /\ El.bitsPerSample = 10
  /\ logImage.height = 2
  /\ RowLen = 8
  /\ Len(call.reads) = 6
  /\ call.reads[4] = El.dataOffset + 12
  /\ \E x \in 0..(RowLen - 1) : Plane[RowLen + x + 1] # Zero

====
